---- MODULE Spec2Model ----
(***************************************************************************)
(* Model of the boomnet websocket client (src/src/ws), its read buffer     *)
(* (src/src/buffer.rs) and the endpoint IO service (src/src/service).      *)
(*                                                                         *)
(* Bytes are integers 0..255.  A stream is the environment: `net` holds    *)
(* the bytes the peer has sent and the client has not read yet, `out` the  *)
(* bytes the client has written.  Every stream call made by a handler      *)
(* takes its outcome (bytes, WouldBlock, end of stream, other error) as a  *)
(* nondeterministic input of the action that models the handler.           *)
(***************************************************************************)
EXTENDS Integers, Sequences, FiniteSets, TLC

VARIABLES
    ws,        \* the Websocket struct: closed, state (Handshake | Connection)
    net,       \* inbound bytes in flight (sent by the server, not yet read)
    out,       \* every byte the client has written to the stream
    batch,     \* TRUE while the user holds the Batch of the last read_batch
    panicked,  \* TRUE once a handler has panicked (the thread unwinds)
    env,       \* what the server and the stream may do (fixed by Init)
    srv,       \* history: what the server has sent so far
    last,      \* history: the last user call and what it returned
    yielded,   \* history: the frames handed to the user, in order
    sendlog,   \* history: every message queued or handed to encoder::send
    nsends,    \* history: the number of send_* calls the user has made
    svc,       \* the IOService struct
    clock,     \* the time source of the service
    eps,       \* the endpoints known to the user of the service
    svclog,    \* history: the create_target calls of the service
    rbuf,      \* a ReadBuffer used on its own, and the bytes its stream holds
    codec,     \* history: the last call of the frame encoder or decoder on its own
    tape,      \* a RecordedStream, the ReplayStream of its files, and their reads
    bstream,   \* a BufferedStream over a stream that records what it takes
    tls,       \* a TlsStream and the plaintext its session has taken
    ktls       \* a KtlsStream and the plaintext its session has taken

svcvars == <<svc, clock, eps, svclog>>
libvars == <<rbuf, codec, tape, bstream, tls, ktls>>
vars == <<ws, net, out, batch, panicked, env, srv, last, yielded, sendlog, nsends,
          svc, clock, eps, svclog, rbuf, codec, tape,
          bstream, tls, ktls>>

----------------------------------------------------------------------------
(* Bounds of the model *)

\* frames the server sends on one connection
MaxFrames == 2
\* send_* calls the user makes on one connection
MaxSends == 2
\* CHUNK_SIZE of the decoder's ReadBuffer, scaled down
ChunkSize == 2
\* INITIAL_CAPACITY of a ReadBuffer, scaled down
InitialCapacity == 4
\* N, the capacity of a BufferedStream
N == 3
\* bytes the user of a stream layer writes in all
MaxWritten == 5
\* flush calls on one BufferedStream
MaxFlushes == 3
\* length of the serialized upgrade request, scaled down
ReqLen == 2
\* endpoints registered with one service
MaxEndpoints == 2
\* ticks of the service's clock in one second
Second == 1
\* u64::MAX in ticks, scaled down
U64Max == 40

----------------------------------------------------------------------------
(* Small helpers *)

Min(a, b) == IF a < b THEN a ELSE b

Zeros(n) == [i \in 1..n |-> 0]

----------------------------------------------------------------------------
(* ws/protocol.rs *)

FIN_MASK == 128
RSV1_MASK == 64
RSV2_MASK == 32
RSV3_MASK == 16
OP_CODE_MASK == 15
MASK_MASK == 128
PAYLOAD_LENGTH_MASK == 127

CONTINUATION_FRAME == 0
TEXT_FRAME == 1
BINARY_FRAME == 2
CONNECTION_CLOSE == 8
PING == 9
PONG == 10

\* b & mask, for a mask that is a single bit or a run of low bits
BitAnd(b, mask) ==
    IF mask = OP_CODE_MASK THEN b % 16
    ELSE IF mask = PAYLOAD_LENGTH_MASK THEN b % 128
    ELSE ((b \div mask) % 2) * mask

----------------------------------------------------------------------------
(* util.rs: NoBlock *)

\* io::Result<usize>::no_block. r.k is the outcome of stream.read:
\* "Data" with r.n bytes (r.n = 0 is end of stream), "WouldBlock" or "Err".
\* the ErrorKind of a failed read, "Other" where the stream names none
ErrorKindOf(r) == IF "kind" \in DOMAIN r THEN r.kind ELSE "Other"

\* a no_block that takes a read of 0 bytes for a read that would block
NoBlockUsizeNoEof(r) ==
    IF r.k = "Data" THEN [ok |-> TRUE, n |-> r.n, kind |-> "none"]
    ELSE IF r.k = "WouldBlock" THEN [ok |-> TRUE, n |-> 0, kind |-> "none"]
    ELSE [ok |-> FALSE, n |-> 0, kind |-> ErrorKindOf(r)]

NoBlockUsize(r) ==
    IF r.k = "Data" /\ r.n = 0 THEN [ok |-> FALSE, n |-> 0, kind |-> "UnexpectedEof"]
    ELSE IF r.k = "Data" THEN [ok |-> TRUE, n |-> r.n, kind |-> "none"]
    ELSE IF r.k = "WouldBlock" THEN [ok |-> TRUE, n |-> 0, kind |-> "none"]
    ELSE [ok |-> FALSE, n |-> 0, kind |-> ErrorKindOf(r)]

\* io::Result<()>::no_block on a result [ok, kind]
NoBlockUnit(r) ==
    IF r.ok THEN r
    ELSE IF r.kind = "WouldBlock" THEN [ok |-> TRUE, kind |-> "none"]
    ELSE r

----------------------------------------------------------------------------
(* buffer.rs: ReadBuffer.  inner[i + 1] is the byte at offset i. *)

NewReadBuffer == [inner |-> Zeros(InitialCapacity), head |-> 0, tail |-> 0]

available(buf) == buf.tail - buf.head

view(buf) == SubSeq(buf.inner, buf.head + 1, buf.tail)

view_last(buf, len) == SubSeq(buf.inner, buf.tail - len + 1, buf.tail)

\* compact without the ptr::copy: only the offsets move
compactOffsetsOnly(buf) == [buf EXCEPT !.tail = buf.tail - buf.head, !.head = 0]

compact(buf) ==
    [buf EXCEPT
        !.inner = [i \in 1..Len(buf.inner) |->
                     IF i <= buf.tail - buf.head THEN buf.inner[buf.head + i]
                     ELSE buf.inner[i]],
        !.tail = buf.tail - buf.head,
        !.head = 0]

grow(buf) == [buf EXCEPT !.inner = buf.inner \o Zeros(Len(buf.inner))]

\* read_from_with_mode, "// compact"
CompactStep(buf) == IF buf.head > 0 /\ buf.tail - buf.head > 0 THEN compact(buf) ELSE buf

\* read_from_with_mode, "// clear"
ClearStep(buf) ==
    IF buf.head > 0 /\ buf.tail - buf.head = 0
    THEN [buf EXCEPT !.head = 0, !.tail = 0] ELSE buf

\* read_from_with_mode, "// ensure capacity for at least one chunk"
GrowStep(buf, chunk) == IF buf.tail + chunk > Len(buf.inner) THEN grow(buf) ELSE buf

\* the part of read_from_with_mode that runs before stream.read
PrepareRead(buf, chunk) == GrowStep(ClearStep(CompactStep(buf)), chunk)

\* the length of the slice a prepared buffer hands to stream.read
SliceOf(b, chunk, mode) == IF mode = "Chunk" THEN chunk ELSE Len(b.inner) - b.tail

ReadSliceLen(buf, chunk, mode) == SliceOf(PrepareRead(buf, chunk), chunk, mode)

\* stream.read stores `data` at the tail of the prepared buffer b, and
\* `self.tail += read.no_block()?` with nb the result of no_block
StoreRead(b, nb, data) ==
    [buf |-> [b EXCEPT
                !.inner = [i \in 1..Len(b.inner) |->
                             IF i > b.tail /\ i <= b.tail + Len(data)
                             THEN data[i - b.tail] ELSE b.inner[i]],
                !.tail = IF nb.ok THEN b.tail + nb.n ELSE b.tail],
     ok |-> nb.ok, kind |-> nb.kind]

\* read_from_with_mode; the mode only decides the slice handed to the stream
read_from_with_mode(buf, chunk, mode, r, data) ==
    StoreRead(PrepareRead(buf, chunk), NoBlockUsize(r), data)

read_from(buf, chunk, r, data) == read_from_with_mode(buf, chunk, "Chunk", r, data)

read_all_from(buf, chunk, r, data) == read_from_with_mode(buf, chunk, "Available", r, data)

\* a consume that hands out the slice and then moves the unread bytes to offset 0
consume_next_moving(buf, len) ==
    [buf |-> compact([buf EXCEPT !.head = buf.head + len]),
     bytes |-> SubSeq(buf.inner, buf.head + 1, buf.head + len)]

consume_next_unchecked(buf, len) ==
    [buf |-> [buf EXCEPT !.head = buf.head + len],
     bytes |-> SubSeq(buf.inner, buf.head + 1, buf.head + len)]

consume_next_byte_unchecked(buf) ==
    [buf |-> [buf EXCEPT !.head = buf.head + 1], byte |-> buf.inner[buf.head + 1]]

\* a consume_next that does not look at available()
consume_next_unguarded(buf, len) ==
    [buf |-> [buf EXCEPT !.head = buf.head + len], some |-> TRUE,
     bytes |-> SubSeq(buf.inner, buf.head + 1, buf.head + len)]

\* ReadBuffer::consume_next: Option<&[u8]>
consume_next(buf, len) ==
    IF available(buf) >= len
    THEN [buf |-> consume_next_unchecked(buf, len).buf, some |-> TRUE,
          bytes |-> consume_next_unchecked(buf, len).bytes]
    ELSE [buf |-> buf, some |-> FALSE, bytes |-> <<>>]

\* ReadBuffer::consume_next_byte: Option<u8>
consume_next_byte(buf) ==
    IF available(buf) >= 1
    THEN [buf |-> consume_next_byte_unchecked(buf).buf, some |-> TRUE,
          bytes |-> << consume_next_byte_unchecked(buf).byte >>]
    ELSE [buf |-> buf, some |-> FALSE, bytes |-> <<>>]

----------------------------------------------------------------------------
(* ws/decoder.rs *)

NewDecoder ==
    [buffer |-> NewReadBuffer,
     decode_state |-> "ReadingHeader",
     fin |-> FALSE,
     op_code |-> 0,
     payload_length |-> 0,
     needs_more_data |-> TRUE]

\* the length bytes taken in little-endian order
RECURSIVE from_le_bytes(_)
from_le_bytes(bytes) ==
    IF bytes = <<>> THEN 0 ELSE bytes[1] + 256 * from_le_bytes(Tail(bytes))

\* u16::from_be_bytes / u64::from_be_bytes
RECURSIVE from_be_bytes(_)
from_be_bytes(bytes) ==
    IF bytes = <<>> THEN 0
    ELSE from_be_bytes(SubSeq(bytes, 1, Len(bytes) - 1)) * 256 + bytes[Len(bytes)]

\* the match on op_code in ReadingPayload; "unknown" is the `_` arm
FrameOfOpCode(op_code, fin, payload) ==
    IF op_code = TEXT_FRAME THEN [kind |-> "Text", fin |-> fin, payload |-> payload]
    ELSE IF op_code = BINARY_FRAME THEN [kind |-> "Binary", fin |-> fin, payload |-> payload]
    ELSE IF op_code = CONTINUATION_FRAME
         THEN [kind |-> "Continuation", fin |-> fin, payload |-> payload]
    ELSE IF op_code = PING THEN [kind |-> "Ping", payload |-> payload]
    ELSE IF op_code = CONNECTION_CLOSE THEN [kind |-> "Close", payload |-> payload]
    ELSE [kind |-> "unknown"]

ProtocolError(d, msg) == [dec |-> d, t |-> "Err", err |-> [e |-> "Protocol", msg |-> msg]]

\* `// await for more data`
AwaitData(d) == [dec |-> [d EXCEPT !.needs_more_data = TRUE], t |-> "None"]

\* a header step that does not look at the RSV bits
HeaderStepAnyRsv(d, b) ==
    [stop |-> FALSE,
     dec |-> [d EXCEPT !.fin = (BitAnd(b, FIN_MASK) \div 128) = 1,
                       !.op_code = BitAnd(b, OP_CODE_MASK),
                       !.decode_state = "ReadingPayloadLength"]]

\* DecodeState::ReadingHeader with byte b consumed
HeaderStep(d, b) ==
    IF BitAnd(b, RSV1_MASK) \div 64 + BitAnd(b, RSV2_MASK) \div 32 + BitAnd(b, RSV3_MASK) \div 16 # 0
    THEN [stop |-> TRUE, res |-> ProtocolError(d, "non zero RSV value received")]
    ELSE [stop |-> FALSE,
          dec |-> [d EXCEPT !.fin = (BitAnd(b, FIN_MASK) \div 128) = 1,
                            !.op_code = BitAnd(b, OP_CODE_MASK),
                            !.decode_state = "ReadingPayloadLength"]]

PayloadStateOf(payload_length) ==
    IF payload_length <= 125 THEN "ReadingPayload"
    ELSE IF payload_length = 126 THEN "ReadingExtendedPayloadLength2"
    ELSE "ReadingExtendedPayloadLength8"

\* DecodeState::ReadingPayloadLength with byte b consumed
PayloadLengthStep(d, b) ==
    IF BitAnd(b, MASK_MASK) \div 128 = 1
    THEN [stop |-> TRUE, res |-> ProtocolError(d, "masking bit set on the server frame")]
    ELSE [stop |-> FALSE,
          dec |-> [d EXCEPT !.payload_length = BitAnd(b, PAYLOAD_LENGTH_MASK),
                            !.decode_state = PayloadStateOf(BitAnd(b, PAYLOAD_LENGTH_MASK))]]

\* DecodeState::ReadingExtendedPayloadLength2 / 8 with the length bytes consumed
ExtendedStep(d, bytes) ==
    [stop |-> FALSE,
     dec |-> [d EXCEPT !.payload_length = from_be_bytes(bytes),
                       !.decode_state = "ReadingPayload"]]

\* DecodeState::ReadingPayload with the payload consumed
PayloadStep(d, frame) ==
    IF frame.kind = "unknown"
    THEN [stop |-> TRUE, res |-> ProtocolError(d, "unknown op_code")]
    ELSE [stop |-> TRUE,
          res |-> [dec |-> [d EXCEPT !.decode_state = "ReadingHeader"],
                   t |-> "Frame", frame |-> frame]]

WithBuffer(d, c) == [d EXCEPT !.buffer = c.buf]

ByteStep(d, c) ==
    IF d.decode_state = "ReadingHeader"
    THEN HeaderStep(WithBuffer(d, c), c.byte)
    ELSE PayloadLengthStep(WithBuffer(d, c), c.byte)

BytesStep(d, c) ==
    IF d.decode_state = "ReadingPayload"
    THEN PayloadStep(WithBuffer(d, c), FrameOfOpCode(d.op_code, d.fin, c.bytes))
    ELSE ExtendedStep(WithBuffer(d, c), c.bytes)

\* the bytes the current decode state waits for
Wanted(d) ==
    CASE d.decode_state = "ReadingHeader" -> 1
      [] d.decode_state = "ReadingPayloadLength" -> 1
      [] d.decode_state = "ReadingExtendedPayloadLength2" -> 2
      [] d.decode_state = "ReadingExtendedPayloadLength8" -> 8
      [] d.decode_state = "ReadingPayload" -> d.payload_length

\* one iteration of the loop of decode_next that does not break
DecodeStep(d) ==
    IF d.decode_state \in {"ReadingHeader", "ReadingPayloadLength"}
    THEN ByteStep(d, consume_next_byte_unchecked(d.buffer))
    ELSE BytesStep(d, consume_next_unchecked(d.buffer, Wanted(d)))

\* Decoder::decode_next.  Result t: "Frame" (Ok(Some)), "None" (Ok(None)),
\* "Err" (Error::Protocol).
RECURSIVE decode_next(_)
DecodeLoop(step) == IF step.stop THEN step.res ELSE decode_next(step.dec)

decode_next(d) ==
    IF available(d.buffer) >= Wanted(d) THEN DecodeLoop(DecodeStep(d)) ELSE AwaitData(d)

\* Decoder::read after read_all_from returned rd
DecoderAfterRead(d, rd) ==
    [dec |-> [d EXCEPT !.buffer = rd.buf,
                       !.needs_more_data = IF rd.ok THEN FALSE ELSE d.needs_more_data],
     ok |-> rd.ok, kind |-> rd.kind, reads |-> 1]

\* a read that does not look at needs_more_data
DecoderReadAlways(d, r, data) ==
    DecoderAfterRead(d, read_all_from(d.buffer, ChunkSize, r, data))

\* Decoder::read: one read_all_from when more data is needed, none otherwise.
\* reads is the number of stream.read calls made.
DecoderRead(d, r, data) ==
    IF d.needs_more_data
    THEN DecoderAfterRead(d, read_all_from(d.buffer, ChunkSize, r, data))
    ELSE [dec |-> d, ok |-> TRUE, kind |-> "none", reads |-> 0]

----------------------------------------------------------------------------
(* ws/encoder.rs *)

\* n as `width` big-endian bytes (to_be_bytes)
RECURSIVE to_be_bytes(_, _)
to_be_bytes(n, width) ==
    IF width = 0 THEN <<>>
    ELSE Append(to_be_bytes(n \div 256, width - 1), n % 256)

\* A body is Option<&[u8]>
NoBody == [some |-> FALSE, bytes |-> <<>>]
SomeBody(bytes) == [some |-> TRUE, bytes |-> bytes]

WriteAll(bytes) == [c |-> "write", bytes |-> bytes]

\* a length written in 7 bits up to 126
LengthCallsShort(some, len) ==
    IF ~some THEN << WriteAll(<<MASK_MASK>>) >>
    ELSE IF len <= 126 THEN << WriteAll(<<MASK_MASK + len>>) >>
    ELSE IF len <= 65535
         THEN << WriteAll(<<MASK_MASK + 126>>), WriteAll(to_be_bytes(len, 2)) >>
    ELSE << WriteAll(<<MASK_MASK + 127>>), WriteAll(to_be_bytes(len, 8)) >>

\* the write_all calls for the payload length of a body of `len` bytes
LengthCalls(some, len) ==
    IF ~some THEN << WriteAll(<<MASK_MASK>>) >>
    ELSE IF len <= 125 THEN << WriteAll(<<MASK_MASK + len>>) >>
    ELSE IF len <= 65535
         THEN << WriteAll(<<MASK_MASK + 126>>), WriteAll(to_be_bytes(len, 2)) >>
    ELSE << WriteAll(<<MASK_MASK + 127>>), WriteAll(to_be_bytes(len, 8)) >>

\* The calls encoder::send makes on the stream, in order.  c is "write" for
\* a write_all whose error is returned with `?`, "unwrap" for the write_all
\* of the masking key, "flush" for the final flush.
EncoderCalls(fin, op_code, body) ==
    << WriteAll(<< (IF fin THEN FIN_MASK ELSE 0) + op_code >>) >>
    \o LengthCalls(body.some, Len(body.bytes))
    \o << [c |-> "unwrap", bytes |-> to_be_bytes(0, 4)] >>
    \o (IF body.some THEN << WriteAll(body.bytes) >> ELSE <<>>)
    \o << [c |-> "flush", bytes |-> <<>>] >>

\* Runs the calls from the i-th on.  wf is the write fault of the stream:
\* its wf.at-th call in this handler fails with wf.kind (wf.at = 0: none);
\* n counts the stream calls made so far.  write_all of an empty slice
\* returns Ok without calling the stream.  A failing call stores nothing.
RECURSIVE RunCalls(_, _, _, _, _)
RunCalls(calls, i, o, n, wf) ==
    IF i > Len(calls) THEN [out |-> o, n |-> n, res |-> "Ok", kind |-> "none"]
    ELSE IF calls[i].c # "flush" /\ calls[i].bytes = <<>>
         THEN RunCalls(calls, i + 1, o, n, wf)
    ELSE IF n + 1 = wf.at
         THEN [out |-> o, n |-> n + 1,
               res |-> IF calls[i].c = "unwrap" THEN "Panic" ELSE "Err",
               kind |-> wf.kind]
    ELSE RunCalls(calls, i + 1, o \o calls[i].bytes, n + 1, wf)

\* encoder::send
encoder_send(o, n, wf, fin, op_code, body) ==
    RunCalls(EncoderCalls(fin, op_code, body), 1, o, n, wf)

NoWriteFault == [at |-> 0, kind |-> "none"]

----------------------------------------------------------------------------
(* ws/handshake.rs *)

CRLFCRLF == <<13, 10, 13, 10>>

\* The upgrade request prepare_handshake_request serializes (path, host and
\* nonce abstracted): ReqLen bytes.
Request == [i \in 1..ReqLen |-> 70 + i]

\* The status code httparse finds in a response that ends in CRLF CRLF:
\* the status line is one byte carrying the code.
ResponseCode(bytes) == bytes[1]

SWITCHING_PROTOCOLS == 101

NewHandshaker ==
    [inbound_buffer |-> NewReadBuffer,
     outbound_buffer |-> <<>>,
     bytes_sent |-> 0,
     state |-> "NotStarted",
     pending_msg_buffer |-> <<>>]

HandshakerAfterRead(h, rd) ==
    [hs |-> [h EXCEPT !.inbound_buffer = rd.buf], ok |-> rd.ok, kind |-> rd.kind, reads |-> 1]

\* an inbound buffer that reads as much at a time as the decoder's buffer
HandshakeChunkWide == ChunkSize

\* inbound_buffer: OwnedReadBuffer<1>, a CHUNK_SIZE of one byte
HandshakeChunk == 1

\* Handshaker::read: one read_from (chunk of 1 byte) while PendingResponse
HandshakerRead(h, r, data) ==
    IF h.state = "PendingResponse"
    THEN HandshakerAfterRead(h, read_from(h.inbound_buffer, HandshakeChunk, r, data))
    ELSE [hs |-> h, ok |-> TRUE, kind |-> "none", reads |-> 0]

\* what perform_handshake returns: Err(WouldBlock) unless stated otherwise
Handshaking(h, o, n) == [hs |-> h, out |-> o, ok |-> FALSE, kind |-> "WouldBlock", n |-> n]

\* a PendingRequest arm that takes every write for a write of all that remains
TransmitRemainingWhole(h, o, wf, wn, remaining) ==
    IF remaining # <<>>
    THEN IF wf.at = 1
         THEN [hs |-> h, out |-> o, ok |-> FALSE, kind |-> wf.kind, n |-> 1]
         ELSE Handshaking([h EXCEPT !.bytes_sent = h.bytes_sent + Len(remaining)],
                          o \o SubSeq(remaining, 1, Min(wn, Len(remaining))), 1)
    ELSE Handshaking([h EXCEPT !.state = "PendingResponse"], o, 0)

\* perform_handshake, PendingRequest: `remaining` is still to be sent
TransmitRemaining(h, o, wf, wn, remaining) ==
    IF remaining # <<>>
    THEN IF wf.at = 1
         THEN [hs |-> h, out |-> o, ok |-> FALSE, kind |-> wf.kind, n |-> 1]
         ELSE Handshaking([h EXCEPT !.bytes_sent = h.bytes_sent + Min(wn, Len(remaining))],
                          o \o SubSeq(remaining, 1, Min(wn, Len(remaining))), 1)
    ELSE Handshaking([h EXCEPT !.state = "PendingResponse"], o, 0)

\* a PendingResponse arm that takes any terminated response for the upgrade
DecodeResponseAnyStatus(h, o, buf) ==
    IF available(buf) >= 4 /\ view_last(buf, 4) = CRLFCRLF
    THEN Handshaking([h EXCEPT !.state = "Completed"], o, 0)
    ELSE Handshaking(h, o, 0)

\* perform_handshake, PendingResponse
DecodeResponse(h, o, buf) ==
    IF available(buf) >= 4 /\ view_last(buf, 4) = CRLFCRLF
    THEN IF ResponseCode(view(buf)) # SWITCHING_PROTOCOLS
         THEN [hs |-> h, out |-> o, ok |-> FALSE, kind |-> "Other", n |-> 0]
         ELSE Handshaking([h EXCEPT !.state = "Completed"], o, 0)
    ELSE Handshaking(h, o, 0)

\* Handshaker::perform_handshake.  wf: the fault of the handler's first
\* stream call; wn: the bytes stream.write accepts when it succeeds.
perform_handshake(h, o, wf, wn) ==
    CASE h.state = "NotStarted" ->
            Handshaking([h EXCEPT !.outbound_buffer = Request, !.state = "PendingRequest"], o, 0)
      [] h.state = "PendingRequest" ->
            TransmitRemaining(h, o, wf, wn,
                SubSeq(h.outbound_buffer, h.bytes_sent + 1, Len(h.outbound_buffer)))
      [] h.state = "PendingResponse" -> DecodeResponse(h, o, h.inbound_buffer)
      [] h.state = "Completed" ->
            [hs |-> h, out |-> o, ok |-> TRUE, kind |-> "none", n |-> 0]

\* a message put in front of the ones already waiting
buffer_message_front(h, fin, op, body) ==
    [h EXCEPT !.pending_msg_buffer = << [op |-> op, fin |-> fin, body |-> body] >>
                                        \o h.pending_msg_buffer]

\* Handshaker::buffer_message
buffer_message(h, fin, op, body) ==
    [h EXCEPT !.pending_msg_buffer = Append(h.pending_msg_buffer,
                                            [op |-> op, fin |-> fin, body |-> body])]

\* one entry of the history of messages queued or handed to encoder::send
SendEntry(src, fin, op, body, res) ==
    [src |-> src, fin |-> fin, op |-> op, body |-> body, res |-> res]

\* Handshaker::drain_pending_message_buffer with send = encoder::send
RECURSIVE drain_pending_message_buffer(_, _, _, _, _)
\* the body of the loop: message m was popped and send returned s
DrainStep(popped, wf, log, m, s) ==
    IF s.res = "Ok"
    THEN drain_pending_message_buffer(popped, s.out, s.n, wf,
                                      Append(log, SendEntry("drain", m.fin, m.op, m.body, "Ok")))
    ELSE [hs |-> popped, out |-> s.out, n |-> s.n, res |-> s.res, kind |-> s.kind,
          log |-> Append(log, SendEntry("drain", m.fin, m.op, m.body, s.res))]

DrainHead(h, o, n, wf, log, m) ==
    DrainStep([h EXCEPT !.pending_msg_buffer = Tail(h.pending_msg_buffer)], wf, log, m,
              encoder_send(o, n, wf, m.fin, m.op, m.body))

drain_pending_message_buffer(h, o, n, wf, log) ==
    IF h.pending_msg_buffer = <<>>
    THEN [hs |-> h, out |-> o, n |-> n, res |-> "Ok", kind |-> "none", log |-> log]
    ELSE DrainHead(h, o, n, wf, log, Head(h.pending_msg_buffer))

----------------------------------------------------------------------------
(* ws/mod.rs: State *)

StateHandshake(h) == [tag |-> "Handshake", handshake |-> h]
StateConnection(d) == [tag |-> "Connection", decoder |-> d]

\* String::from_utf8_lossy(body).to_string(), as the bytes of the String:
\* ASCII bytes and well-formed two-byte sequences are kept, every other
\* byte becomes U+FFFD (EF BF BD).
RECURSIVE from_utf8_lossy(_)
from_utf8_lossy(bytes) ==
    IF bytes = <<>> THEN <<>>
    ELSE IF bytes[1] < 128 THEN <<bytes[1]>> \o from_utf8_lossy(Tail(bytes))
    ELSE IF /\ bytes[1] >= 194 /\ bytes[1] <= 223 /\ Len(bytes) >= 2
            /\ bytes[2] >= 128 /\ bytes[2] <= 191
         THEN <<bytes[1], bytes[2]>> \o from_utf8_lossy(Tail(Tail(bytes)))
    ELSE <<239, 191, 189>> \o from_utf8_lossy(Tail(bytes))

IOError(kind) == [e |-> "IO", kind |-> kind]

\* Results of State::next.  t: "Frame" (Ok(Some)), "None" (Ok(None)),
\* "Err" with err, "Panic".
NextNone(st, o, log) == [state |-> st, out |-> o, t |-> "None", log |-> log]
NextFrame(st, o, frame) == [state |-> st, out |-> o, t |-> "Frame", frame |-> frame, log |-> <<>>]
NextErr(st, o, err, log) == [state |-> st, out |-> o, t |-> "Err", err |-> err, log |-> log]
NextPanic(st, o, log) == [state |-> st, out |-> o, t |-> "Panic", log |-> log]

StateReadHandshake(x) ==
    [state |-> StateHandshake(x.hs), ok |-> x.ok, kind |-> x.kind, reads |-> x.reads]

StateReadConnection(x) ==
    [state |-> StateConnection(x.dec), ok |-> x.ok, kind |-> x.kind, reads |-> x.reads]

\* State::read
StateRead(st, r, data) ==
    IF st.tag = "Handshake"
    THEN StateReadHandshake(HandshakerRead(st.handshake, r, data))
    ELSE StateReadConnection(DecoderRead(st.decoder, r, data))

\* State::send, Connection arm: encoder::send returned s
StateSent(st, src, fin, op_code, body, s) ==
    [state |-> st, out |-> s.out, n |-> s.n, res |-> s.res, kind |-> s.kind,
     log |-> << SendEntry(src, fin, op_code, body, s.res) >>]

\* State::send
StateSend(st, o, n, wf, src, fin, op_code, body) ==
    IF st.tag = "Handshake"
    THEN [state |-> StateHandshake(buffer_message(st.handshake, fin, op_code, body)),
          out |-> o, n |-> n, res |-> "Ok", kind |-> "none",
          log |-> << SendEntry("queue", fin, op_code, body, "Ok") >>]
    ELSE StateSent(st, src, fin, op_code, body, encoder_send(o, n, wf, fin, op_code, body))

\* State::next, Handshake arm, Ok(()): drain_pending_message_buffer returned d
AfterDrain(d) ==
    IF d.res = "Ok" THEN NextNone(StateConnection(NewDecoder), d.out, d.log)
    ELSE IF d.res = "Panic" THEN NextPanic(StateHandshake(d.hs), d.out, d.log)
    ELSE NextErr(StateHandshake(d.hs), d.out, IOError(d.kind), d.log)

\* State::next, Handshake arm: perform_handshake returned p
AfterHandshake(p, wf) ==
    IF p.ok THEN AfterDrain(drain_pending_message_buffer(p.hs, p.out, p.n, wf, <<>>))
    ELSE IF p.kind = "WouldBlock" THEN NextNone(StateHandshake(p.hs), p.out, <<>>)
    ELSE NextErr(StateHandshake(p.hs), p.out, IOError(p.kind), <<>>)

\* State::next, Ping arm: self.send(.., PONG, ..)? returned s
AfterPong(s) ==
    IF s.res = "Ok" THEN NextNone(s.state, s.out, s.log)
    ELSE IF s.res = "Panic" THEN NextPanic(s.state, s.out, s.log)
    ELSE NextErr(s.state, s.out, IOError(s.kind), s.log)

\* State::next, Close arm: `let _ = self.send(.., CONNECTION_CLOSE, ..)`
\* returned s; split_at(2) panics on a payload shorter than two bytes
AfterCloseEcho(payload, s) ==
    IF s.res = "Panic" \/ Len(payload) < 2
    THEN NextPanic(s.state, s.out, s.log)
    ELSE NextErr(s.state, s.out,
                 [e |-> "ReceivedCloseFrame",
                  status |-> from_be_bytes(SubSeq(payload, 1, 2)),
                  body |-> from_utf8_lossy(SubSeq(payload, 3, Len(payload)))],
                 s.log)

\* a Connection arm that hands a Ping to the user like any other frame
AfterDecodeNoPong(x, o, wf) ==
    IF x.t = "Frame" /\ x.frame.kind = "Close"
    THEN AfterCloseEcho(x.frame.payload,
                        StateSend(StateConnection(x.dec), o, 0, wf, "close", TRUE,
                                  CONNECTION_CLOSE, SomeBody(x.frame.payload)))
    ELSE IF x.t = "Frame" THEN NextFrame(StateConnection(x.dec), o, x.frame)
    ELSE IF x.t = "None" THEN NextNone(StateConnection(x.dec), o, <<>>)
    ELSE NextErr(StateConnection(x.dec), o, x.err, <<>>)

\* State::next, Connection arm: decode_next returned x
AfterDecode(x, o, wf) ==
    IF x.t = "Frame" /\ x.frame.kind = "Ping"
    THEN AfterPong(StateSend(StateConnection(x.dec), o, 0, wf, "pong", TRUE, PONG,
                             SomeBody(x.frame.payload)))
    ELSE IF x.t = "Frame" /\ x.frame.kind = "Close"
    THEN AfterCloseEcho(x.frame.payload,
                        StateSend(StateConnection(x.dec), o, 0, wf, "close", TRUE,
                                  CONNECTION_CLOSE, SomeBody(x.frame.payload)))
    ELSE IF x.t = "Frame" THEN NextFrame(StateConnection(x.dec), o, x.frame)
    ELSE IF x.t = "None" THEN NextNone(StateConnection(x.dec), o, <<>>)
    ELSE NextErr(StateConnection(x.dec), o, x.err, <<>>)

\* State::next
StateNext(st, o, wf, wn) ==
    IF st.tag = "Handshake"
    THEN AfterHandshake(perform_handshake(st.handshake, o, wf, wn), wf)
    ELSE AfterDecode(decode_next(st.decoder), o, wf)

----------------------------------------------------------------------------
(* ws/mod.rs: Websocket *)

NewWebsocket == [closed |-> FALSE, state |-> StateHandshake(NewHandshaker)]

handshake_complete(w) == w.state.tag = "Connection"

ensure_not_closed(w) == ~w.closed

ClosedError(w, o) == [ws |-> w, out |-> o, t |-> "Err", err |-> [e |-> "Closed"], log |-> <<>>]

\* Websocket::read_batch: self.state.read(..).no_block() returned nb
AfterRead(w, x, nb) ==
    IF nb.ok
    THEN [ws |-> [w EXCEPT !.state = x.state], t |-> "Batch", reads |-> x.reads]
    ELSE [ws |-> [w EXCEPT !.state = x.state, !.closed = TRUE],
          t |-> "Err", err |-> IOError(nb.kind), reads |-> x.reads]

NoBlockOf(w, x) == AfterRead(w, x, NoBlockUnit([ok |-> x.ok, kind |-> x.kind]))

\* Websocket::read_batch.  t: "Batch" (Ok(Batch)) or "Err".
WsReadBatch(w, r, data) == NoBlockOf(w, StateRead(w.state, r, data))

\* Websocket::next: self.state.next(..) returned x
AfterNext(w, x) ==
    [ws |-> [w EXCEPT !.state = x.state,
                      !.closed = IF x.t = "Err" THEN TRUE ELSE w.closed]] @@ x

\* Websocket::next, which Batch::receive_next and BatchIter::next call
WsNext(w, o, wf, wn) ==
    IF ~ensure_not_closed(w) THEN ClosedError(w, o)
    ELSE AfterNext(w, StateNext(w.state, o, wf, wn))

\* Websocket::send: self.state.send(..) returned x
AfterSend(w, x) ==
    IF x.res = "Ok"
    THEN [ws |-> [w EXCEPT !.state = x.state], out |-> x.out, t |-> "Ok", log |-> x.log]
    ELSE IF x.res = "Panic"
    THEN [ws |-> [w EXCEPT !.state = x.state], out |-> x.out, t |-> "Panic", log |-> x.log]
    ELSE [ws |-> [w EXCEPT !.state = x.state, !.closed = TRUE], out |-> x.out,
          t |-> "Err", err |-> IOError(x.kind), log |-> x.log]

\* Websocket::send, which send_text, send_binary, send_ping, send_pong call
WsSend(w, o, wf, fin, op_code, body) ==
    IF ~ensure_not_closed(w) THEN ClosedError(w, o)
    ELSE AfterSend(w, StateSend(w.state, o, 0, wf, "user", fin, op_code, body))

----------------------------------------------------------------------------
(* stream/record.rs and stream/replay.rs *)

\* n as `width` little-endian bytes (to_le_bytes)
RECURSIVE to_le_bytes(_, _)
to_le_bytes(n, width) ==
    IF width = 0 THEN <<>>
    ELSE <<n % 256>> \o to_le_bytes(n \div 256, width - 1)

\* the files of a Recorder, as the bytes written to them
NewRecorder == [inbound |-> <<>>, inbound_seq |-> <<>>]

\* RecordedStream::new
NewRecordedStream == [recorder |-> NewRecorder, inbound_seq |-> 0]

\* Recorder::record_inbound
record_inbound(recorder, buf, seq) ==
    [inbound |-> recorder.inbound \o buf,
     inbound_seq |-> recorder.inbound_seq \o to_le_bytes(seq, 8) \o to_le_bytes(Len(buf), 8)]

ReadOk(bytes) == [ok |-> TRUE, bytes |-> bytes]
ReadErr(kind) == [ok |-> FALSE, kind |-> kind]

\* the error of an answer of stream.read that is not Ok
AnswerKind(r) == IF r.k = "WouldBlock" THEN "WouldBlock" ELSE r.kind

\* a RecordedStream that takes a sequence number for successful reads only
RecordedStreamReadLate(s, r, data) ==
    IF r.k = "Data"
    THEN [stream |-> [recorder |-> record_inbound(s.recorder, data, s.inbound_seq),
                      inbound_seq |-> s.inbound_seq + 1],
          res |-> ReadOk(data)]
    ELSE [stream |-> s, res |-> ReadErr(AnswerKind(r))]

\* <RecordedStream as Read>::read, the inner stream answering r with bytes
\* data: the sequence number is taken before the inner read, whose error
\* returns with `?` before anything is recorded
RecordedStreamRead(s, r, data) ==
    IF r.k = "Data"
    THEN [stream |-> [recorder |-> record_inbound(s.recorder, data, s.inbound_seq),
                      inbound_seq |-> s.inbound_seq + 1],
          res |-> ReadOk(data)]
    ELSE [stream |-> [s EXCEPT !.inbound_seq = @ + 1], res |-> ReadErr(AnswerKind(r))]

\* HashMap::insert
MapInsert(m, k, v) == [x \in DOMAIN m \cup {k} |-> IF x = k THEN v ELSE m[x]]

\* load_sequence_file: one (sequence number, length) pair per 16 bytes
RECURSIVE load_sequence_file(_, _)
load_sequence_file(bytes, map) ==
    IF bytes = <<>> THEN [ok |-> TRUE, map |-> map]
    ELSE IF Len(bytes) < 15 THEN [ok |-> FALSE, map |-> map]
    ELSE load_sequence_file(SubSeq(bytes, 17, Len(bytes)),
                            MapInsert(map, from_le_bytes(SubSeq(bytes, 1, 8)),
                                      from_le_bytes(SubSeq(bytes, 9, Min(16, Len(bytes))))))

MaxOf(S) == CHOOSE x \in S : \A y \in S : y <= x

\* ReplayStream::from_file once the sequence file is loaded
ReplayOf(recorder, loaded) ==
    IF ~loaded.ok \/ DOMAIN loaded.map = {}
    THEN [ok |-> FALSE]
    ELSE [ok |-> TRUE,
          stream |-> [inner |-> recorder.inbound, pos |-> 0, seq |-> 0,
                      last_seq |-> MaxOf(DOMAIN loaded.map), bytes_read |-> loaded.map]]

\* ReplayStream::from_file on the files a Recorder wrote
from_file(recorder) == ReplayOf(recorder, load_sequence_file(recorder.inbound_seq, << >>))

\* the rest of ReplayStream::read once `read` is looked up
ReplayBytes(s, len, read) ==
    IF read = 0
    THEN [stream |-> [s EXCEPT !.seq = @ + 1], res |-> ReadErr("WouldBlock")]
    ELSE IF read > len
    THEN [stream |-> [s EXCEPT !.seq = @ + 1], res |-> [ok |-> FALSE, kind |-> "Panic"]]
    ELSE [stream |-> [s EXCEPT !.seq = @ + 1, !.pos = @ + read],
          res |-> ReadOk(SubSeq(s.inner, s.pos + 1, s.pos + read))]

\* <ReplayStream as Read>::read into a buffer of len bytes
ReplayStreamRead(s, len) ==
    IF s.seq > s.last_seq THEN [stream |-> s, res |-> ReadErr("UnexpectedEof")]
    ELSE ReplayBytes(s, len, IF s.seq \in DOMAIN s.bytes_read THEN s.bytes_read[s.seq] ELSE 0)

\* a recording session and its replay: the RecordedStream, the ReplayStream
\* once it is opened, and the results of the reads made on each, in order
NewTape ==
    [rec |-> NewRecordedStream, calls |-> <<>>,
     opened |-> "no", replay |-> [ok |-> FALSE], replies |-> <<>>]

----------------------------------------------------------------------------
(* stream/buffer.rs: BufferedStream.  inner is the underlying stream, kept
   as the bytes it has taken so far.  buffer[i + 1] is the byte at offset i;
   the bytes at and after cursor are never read. *)

NewBufferedStream == [inner |-> <<>>, buffer |-> Zeros(N), cursor |-> 0]

\* what write_all(data) on a stream can do: it takes all of data, or it
\* takes `taken` bytes and then a write fails with `kind`
WriteAllOutcomes(data) ==
    {[taken |-> Len(data), ok |-> TRUE, kind |-> "none"]}
        \cup {[taken |-> k, ok |-> FALSE, kind |-> e] :
                 k \in 0..(Len(data) - 1), e \in {"WouldBlock", "BrokenPipe"}}

\* a write that copies what fits and reports the shorter length
BufferedStreamWriteShort(s, buf) ==
    [s |-> [s EXCEPT
              !.buffer = [i \in 1..N |->
                            IF i > s.cursor /\ i <= s.cursor + Len(buf)
                            THEN buf[i - s.cursor] ELSE s.buffer[i]],
              !.cursor = Min(N, s.cursor + Len(buf))],
     ok |-> TRUE, kind |-> "none", n |-> Min(Len(buf), N - s.cursor)]

\* BufferedStream::write
BufferedStreamWrite(s, buf) ==
    IF Len(buf) > N - s.cursor
    THEN [s |-> s, ok |-> FALSE, kind |-> "WriteZero", n |-> 0]
    ELSE [s |-> [s EXCEPT
                   !.buffer = [i \in 1..N |->
                                 IF i > s.cursor /\ i <= s.cursor + Len(buf)
                                 THEN buf[i - s.cursor] ELSE s.buffer[i]],
                   !.cursor = s.cursor + Len(buf)],
          ok |-> TRUE, kind |-> "none", n |-> Len(buf)]

\* BufferedStream::flush: write_all did w, and inner.flush() answered f
BufferedStreamFlush(s, w, f) ==
    IF ~w.ok
    THEN [s |-> [s EXCEPT !.inner = s.inner \o SubSeq(s.buffer, 1, w.taken)],
          ok |-> FALSE, kind |-> w.kind]
    ELSE [s |-> [s EXCEPT !.inner = s.inner \o SubSeq(s.buffer, 1, s.cursor),
                          !.cursor = 0],
          ok |-> f = "Ok", kind |-> IF f = "Ok" THEN "none" ELSE "Other"]

\* a BufferedStream; history: every byte a write has accepted, the bytes
\* accepted since the last call of flush, and the number of flush calls
NewBuffered == [s |-> NewBufferedStream, accepted |-> <<>>, since |-> <<>>, flushes |-> 0]

----------------------------------------------------------------------------
(* stream/tls.rs, mod __openssl: TlsStream.  State::Handshake(Option<(mid,
   buffer)>) is [tag, some, buffer], State::Stream is [tag].  session is
   the plaintext the SslStream has taken. *)

StateHandshakeSome(buffer) == [tag |-> "Handshake", some |-> TRUE, buffer |-> buffer]

StateHandshakeNone == [tag |-> "Handshake", some |-> FALSE, buffer |-> <<>>]

StateStream == [tag |-> "Stream", some |-> TRUE, buffer |-> <<>>]

\* wrap_with_config when connect answers HandshakeError::WouldBlock
NewTlsStream == [state |-> StateHandshakeSome(<<>>), session |-> <<>>]

TlsAnswer(t, ok, kind, n) == [tls |-> t, ok |-> ok, kind |-> kind, n |-> n, panic |-> FALSE]

\* the Ok arm of read: write_all(&buffer) on the new SslStream did w
TlsDrain(t, w) ==
    IF w.ok
    THEN TlsAnswer([state |-> StateStream, session |-> t.session \o t.state.buffer],
                   FALSE, "WouldBlock", 0)
    ELSE TlsAnswer([state |-> StateHandshakeNone,
                    session |-> t.session \o SubSeq(t.state.buffer, 1, w.taken)],
                   FALSE, w.kind, 0)

\* TlsStream::read.  h is what mid_handshake.handshake() answers, w what
\* write_all does, r what SslStream::read answers.
TlsStreamRead(t, h, w, r) ==
    IF t.state.tag = "Stream"
    THEN TlsAnswer(t, r.k = "Data", IF r.k = "Data" THEN "none" ELSE r.k, r.n)
    ELSE IF ~t.state.some THEN TlsAnswer(t, FALSE, "WouldBlock", 0)
    ELSE IF h = "Ok" THEN TlsDrain(t, w)
    ELSE IF h = "WouldBlock" THEN TlsAnswer(t, FALSE, "WouldBlock", 0)
    ELSE TlsAnswer([t EXCEPT !.state = StateHandshakeNone], FALSE, "Other", 0)

\* TlsStream::write.  x is what SslStream::write answers.
TlsStreamWrite(t, buf, x) ==
    IF t.state.tag = "Stream"
    THEN IF x.ok
         THEN TlsAnswer([t EXCEPT !.session = t.session \o SubSeq(buf, 1, x.n)],
                        TRUE, "none", x.n)
         ELSE TlsAnswer(t, FALSE, x.kind, 0)
    ELSE IF ~t.state.some THEN [TlsAnswer(t, FALSE, "none", 0) EXCEPT !.panic = TRUE]
    ELSE TlsAnswer([t EXCEPT !.state.buffer = t.state.buffer \o buf], TRUE, "none", Len(buf))

\* a TlsStream; history: every byte a write has accepted
NewTls == [t |-> NewTlsStream, accepted |-> <<>>]

----------------------------------------------------------------------------
(* stream/ktls.rs: KtlsStream.  State::Drain(index) is state "Drain" with
   index; session is the plaintext SSL_write has taken. *)

NewKtlsStream == [state |-> "Connecting", index |-> 0, buffer |-> <<>>, session |-> <<>>]

KtlsAnswer(k, ok, kind, n) == [k |-> k, ok |-> ok, kind |-> kind, n |-> n, panic |-> FALSE]

\* KtlsStream::ssl_write(buf) answered x: the session took x.n bytes
SslWritten(k, buf, x) ==
    IF x.ok THEN [k EXCEPT !.session = k.session \o SubSeq(buf, 1, x.n)] ELSE k

\* read, State::Connecting: connected() answered c
KtlsConnecting(k, c) ==
    IF c = "Err" THEN KtlsAnswer(k, FALSE, "Other", 0)
    ELSE KtlsAnswer(IF c = "Yes" THEN [k EXCEPT !.state = "Handshake"] ELSE k,
                    FALSE, "WouldBlock", 0)

\* read, State::Handshake: ssl_connect() answered h, and the kernel
\* reports offload as enabled or not
KtlsHandshake(k, h, offload) ==
    IF h = "Ok"
    THEN IF offload
         THEN KtlsAnswer([k EXCEPT !.state = "Drain", !.index = 0], FALSE, "WouldBlock", 0)
         ELSE [KtlsAnswer(k, FALSE, "none", 0) EXCEPT !.panic = TRUE]
    ELSE IF h \in {"WANT_READ", "WANT_WRITE"} THEN KtlsAnswer(k, FALSE, "WouldBlock", 0)
    ELSE KtlsAnswer(k, FALSE, "Other", 0)

\* the buffered bytes from offset `from` on
Remaining(k, from) == SubSeq(k.buffer, from + 1, Len(k.buffer))

\* a Drain arm that becomes Ready after its first ssl_write
KtlsDrainOnce(k, x) ==
    IF Remaining(k, k.index) = <<>>
    THEN KtlsAnswer([k EXCEPT !.state = "Ready"], FALSE, "WouldBlock", 0)
    ELSE IF x.ok \/ x.kind \in {"WANT_READ", "WANT_WRITE"}
    THEN KtlsAnswer([SslWritten(k, Remaining(k, k.index), x) EXCEPT
                       !.index = k.index + (IF x.ok THEN x.n ELSE 0),
                       !.state = "Ready"],
                    FALSE, "WouldBlock", 0)
    ELSE KtlsAnswer(k, FALSE, "Other", 0)

\* read, State::Drain(index): ssl_write(remaining) answered x
KtlsDrain(k, x) ==
    IF Remaining(k, k.index) = <<>>
    THEN KtlsAnswer([k EXCEPT !.state = "Ready"], FALSE, "WouldBlock", 0)
    ELSE IF x.ok \/ x.kind \in {"WANT_READ", "WANT_WRITE"}
    THEN KtlsAnswer([SslWritten(k, Remaining(k, k.index), x) EXCEPT
                       !.index = k.index + (IF x.ok THEN x.n ELSE 0)],
                    FALSE, "WouldBlock", 0)
    ELSE KtlsAnswer(k, FALSE, "Other", 0)

\* read, State::Ready: ssl_read(buf) answered r
KtlsReady(k, r) ==
    IF r.k = "Data"
    THEN IF r.n = 0 THEN KtlsAnswer(k, FALSE, "UnexpectedEof", 0)
         ELSE KtlsAnswer(k, TRUE, "none", r.n)
    ELSE IF r.k \in {"WANT_READ", "WANT_WRITE"} THEN KtlsAnswer(k, FALSE, "WouldBlock", 0)
    ELSE KtlsAnswer(k, FALSE, "Other", 0)

\* KtlsStream::read
KtlsStreamRead(k, c, h, offload, x, r) ==
    CASE k.state = "Connecting" -> KtlsConnecting(k, c)
      [] k.state = "Handshake" -> KtlsHandshake(k, h, offload)
      [] k.state = "Drain" -> KtlsDrain(k, x)
      [] k.state = "Ready" -> KtlsReady(k, r)

\* KtlsStream::write; ssl_write(buf) answered x
KtlsStreamWrite(k, buf, x) ==
    IF k.state = "Ready"
    THEN IF x.ok THEN KtlsAnswer(SslWritten(k, buf, x), TRUE, "none", x.n)
         ELSE IF x.kind \in {"WANT_READ", "WANT_WRITE"}
         THEN KtlsAnswer(k, FALSE, "WouldBlock", 0)
         ELSE KtlsAnswer(k, FALSE, "Other", 0)
    ELSE KtlsAnswer([k EXCEPT !.buffer = k.buffer \o buf], TRUE, "none", Len(buf))

\* a KtlsStream; history: every byte a write has accepted
NewKtls == [k |-> NewKtlsStream, accepted |-> <<>>]

----------------------------------------------------------------------------
(* The server and the stream *)

OpOf(kind) ==
    CASE kind = "Continuation" -> CONTINUATION_FRAME
      [] kind = "Text" -> TEXT_FRAME
      [] kind = "Binary" -> BINARY_FRAME
      [] kind = "Close" -> CONNECTION_CLOSE
      [] kind = "Ping" -> PING
      [] kind = "Pong" -> PONG
      [] kind = "Reserved3" -> 3

\* A frame the server puts on the wire (RFC 6455): enc is the length
\* encoding used (7, 16 or 64 bits), rsv the three RSV bits, mask the MASK bit.
ServerFrame(kind, fin, payload, enc, rsv, mask) ==
    [kind |-> kind, fin |-> fin, payload |-> payload, enc |-> enc, rsv |-> rsv, mask |-> mask]

DataFrame(kind, fin, payload, enc) == ServerFrame(kind, fin, payload, enc, 0, 0)

ControlFrame(kind, payload) == ServerFrame(kind, TRUE, payload, 7, 0, 0)

WireBytes(f) ==
    LET len == Len(f.payload)
    IN  << (IF f.fin THEN 128 ELSE 0) + f.rsv * 16 + OpOf(f.kind) >>
        \o (CASE f.enc = 7 -> << f.mask * 128 + len >>
              [] f.enc = 16 -> << f.mask * 128 + 126 >> \o to_be_bytes(len, 2)
              [] f.enc = 64 -> << f.mask * 128 + 127 >> \o to_be_bytes(len, 8))
        \o (IF f.mask = 1 THEN <<0, 0, 0, 0>> ELSE <<>>)
        \o f.payload

\* the frame as the user should see it
WireFrame(f) ==
    IF f.kind \in {"Text", "Binary", "Continuation"}
    THEN [kind |-> f.kind, fin |-> f.fin, payload |-> f.payload]
    ELSE [kind |-> f.kind, payload |-> f.payload]

Response101 == <<101>> \o CRLFCRLF
Response200 == <<200>> \o CRLFCRLF

\* a message the user sends
Msg(fin, op, body) == [fin |-> fin, op |-> op, body |-> body]

\* The environment of one connection: the frames and upgrade responses the
\* server may send, the faults the stream may answer a read and a write
\* with, and the messages the user may send.
Env(frames, responses, reads, writes, msgs) ==
    [frames |-> frames, responses |-> responses, reads |-> reads,
     writes |-> writes, msgs |-> msgs]

\* the stream calls encoder::send makes for one frame, at most
CallsOf(fin, op_code, body) == Len(EncoderCalls(fin, op_code, body))

RECURSIVE CallsOfQueue(_)
CallsOfQueue(q) ==
    IF q = <<>> THEN 0
    ELSE CallsOf(Head(q).fin, Head(q).op, Head(q).body) + CallsOfQueue(Tail(q))

\* the stream calls State::next makes once decode_next has returned x
CallsAfterDecode(x) ==
    IF x.t = "Frame" /\ x.frame.kind \in {"Ping", "Close"}
    THEN CallsOf(TRUE, PONG, SomeBody(x.frame.payload))
    ELSE 0

\* the stream calls Websocket::next can make at most
MaxStreamCalls(w) ==
    IF w.closed THEN 0
    ELSE IF w.state.tag = "Connection" THEN CallsAfterDecode(decode_next(w.state.decoder))
    ELSE IF w.state.handshake.state = "PendingRequest" THEN 1
    ELSE IF w.state.handshake.state = "Completed"
         THEN CallsOfQueue(w.state.handshake.pending_msg_buffer)
    ELSE 0

\* the stream calls Websocket::send can make at most
MaxSendCalls(w, m) ==
    IF w.closed \/ w.state.tag = "Handshake" THEN 0 ELSE CallsOf(m.fin, m.op, m.body)

\* the byte counts stream.write can accept of the upgrade request
RequestWrites(w) ==
    IF ~w.closed /\ w.state.tag = "Handshake" /\ w.state.handshake.state = "PendingRequest"
    THEN 1..ReqLen ELSE {1}

WriteFaults(n) ==
    {NoWriteFault} \cup [at : 1..n, kind : env.writes]

\* TRUE when read_batch is going to call stream.read
WillRead(w) ==
    IF w.state.tag = "Handshake" THEN w.state.handshake.state = "PendingResponse"
    ELSE w.state.decoder.needs_more_data

\* the length of the slice read_batch hands to stream.read
SliceLen(w) ==
    IF w.state.tag = "Handshake"
    THEN ReadSliceLen(w.state.handshake.inbound_buffer, HandshakeChunk, "Chunk")
    ELSE ReadSliceLen(w.state.decoder.buffer, ChunkSize, "Available")

NoRead == [k |-> "NoRead", n |-> 0]

\* What stream.read can answer: some of the bytes in flight, WouldBlock when
\* there are none (or whenever the stream may), end of stream, an error.
ReadOutcomes(w) ==
    IF ~WillRead(w) THEN {NoRead}
    ELSE [k : {"Data"}, n : 1..Min(Len(net), SliceLen(w))]
         \cup (IF net = <<>> \/ "WouldBlock" \in env.reads
               THEN {[k |-> "WouldBlock", n |-> 0]} ELSE {})
         \cup (IF "Eof" \in env.reads THEN {[k |-> "Data", n |-> 0]} ELSE {})
         \cup (IF "Err" \in env.reads THEN {[k |-> "Err", n |-> 0]} ELSE {})

ReadData(r) == SubSeq(net, 1, r.n)

NetAfter(r) == SubSeq(net, r.n + 1, Len(net))

----------------------------------------------------------------------------
(* History of the user's calls *)

NoErr == [e |-> "none"]
NoFrame == [kind |-> "none"]

\* call: the method called; t: what it returned ("Batch", "None", "Frame",
\* "Err", "Ok", "Panic"); reads: the stream.read calls it made; was_closed,
\* handshaking and needed_data: closed(), !handshake_complete() and whether
\* read_batch would read (the decoder's needs_more_data) when the call was made.
Call(call, t, err, frame, reads, pre) ==
    [call |-> call, t |-> t, err |-> err, frame |-> frame, reads |-> reads,
     was_closed |-> pre.closed, handshaking |-> ~handshake_complete(pre),
     needed_data |-> WillRead(pre)]

ErrOf(res) == IF res.t = "Err" THEN res.err ELSE NoErr

FrameOf(res) == IF res.t = "Frame" THEN res.frame ELSE NoFrame

----------------------------------------------------------------------------
(* Actions of one websocket connection *)

\* the server answers the upgrade request once it has arrived
ServerRespond ==
    /\ ~panicked
    /\ ~srv.responded
    /\ Len(out) >= Len(Request)
    /\ \E resp \in env.responses :
          /\ net' = net \o resp
          /\ srv' = [srv EXCEPT !.responded = TRUE, !.response = resp]
    /\ UNCHANGED <<ws, out, batch, panicked, env, last, yielded, sendlog, nsends, svcvars, libvars>>

\* the server sends one frame
ServerSendFrame ==
    /\ ~panicked
    /\ srv.responded
    /\ Len(srv.frames) < MaxFrames
    /\ \E f \in env.frames :
          /\ net' = net \o WireBytes(f)
          /\ srv' = [srv EXCEPT !.frames = Append(srv.frames, f)]
    /\ UNCHANGED <<ws, out, batch, panicked, env, last, yielded, sendlog, nsends, svcvars, libvars>>

\* read_batch returned x
ReadBatchReturns(x) ==
    /\ ws' = x.ws
    /\ batch' = (x.t = "Batch")
    /\ last' = Call("read_batch", x.t, ErrOf(x), NoFrame, x.reads, ws)

\* the user calls read_batch() and keeps the Batch
ReadBatch ==
    /\ ~panicked
    /\ \E r \in ReadOutcomes(ws) :
          /\ net' = NetAfter(r)
          /\ ReadBatchReturns(WsReadBatch(ws, r, ReadData(r)))
    /\ UNCHANGED <<out, panicked, env, srv, yielded, sendlog, nsends, svcvars, libvars>>

\* Websocket::next returned x to `call`, which made `reads` reads before
NextReturns(call, reads, x) ==
    /\ ws' = x.ws
    /\ out' = x.out
    /\ panicked' = (x.t = "Panic")
    /\ last' = Call(call, x.t, ErrOf(x), FrameOf(x), reads, ws)
    /\ yielded' = IF x.t = "Frame" THEN Append(yielded, x.frame) ELSE yielded
    /\ sendlog' = sendlog \o x.log

\* the user calls receive_next() on the Batch, or next() on its iterator
BatchNext ==
    /\ ~panicked
    /\ batch
    /\ \E wf \in WriteFaults(MaxStreamCalls(ws)), wn \in RequestWrites(ws) :
          NextReturns("next", 0, WsNext(ws, out, wf, wn))
    /\ UNCHANGED <<net, batch, env, srv, nsends, svcvars, libvars>>

\* Websocket::receive_next after its read_batch returned rb
ReceiveNextOn(rb) ==
    IF rb.t = "Err"
    THEN /\ ws' = rb.ws
         /\ last' = Call("receive_next", "Err", rb.err, NoFrame, rb.reads, ws)
         /\ UNCHANGED <<out, panicked, yielded, sendlog>>
    ELSE \E wf \in WriteFaults(MaxStreamCalls(rb.ws)), wn \in RequestWrites(rb.ws) :
            NextReturns("receive_next", rb.reads, WsNext(rb.ws, out, wf, wn))

\* the user calls Websocket::receive_next(): read_batch, then receive_next
\* on the Batch it returned
ReceiveNext ==
    /\ ~panicked
    /\ \E r \in ReadOutcomes(ws) :
          /\ net' = NetAfter(r)
          /\ ReceiveNextOn(WsReadBatch(ws, r, ReadData(r)))
    /\ batch' = FALSE
    /\ UNCHANGED <<env, srv, nsends, svcvars, libvars>>

\* send_* returned x
SendReturns(x) ==
    /\ ws' = x.ws
    /\ out' = x.out
    /\ panicked' = (x.t = "Panic")
    /\ last' = Call("send", x.t, ErrOf(x), NoFrame, 0, ws)
    /\ sendlog' = sendlog \o x.log

\* the user calls send_text, send_binary, send_ping or send_pong
Send ==
    /\ ~panicked
    /\ nsends < MaxSends
    /\ \E m \in env.msgs : \E wf \in WriteFaults(MaxSendCalls(ws, m)) :
          SendReturns(WsSend(ws, out, wf, m.fin, m.op, m.body))
    /\ nsends' = nsends + 1
    /\ batch' = FALSE
    /\ UNCHANGED <<net, env, srv, yielded, svcvars, libvars>>

NextWs == ServerRespond \/ ServerSendFrame \/ ReadBatch \/ BatchNext \/ ReceiveNext \/ Send

\* a user who only receives
NextReceive == ServerRespond \/ ServerSendFrame \/ ReadBatch \/ BatchNext \/ ReceiveNext

\* the state after Websocket::new, in environment e
InitWs(e) ==
    /\ ws = NewWebsocket
    /\ net = <<>>
    /\ out = <<>>
    /\ batch = FALSE
    /\ panicked = FALSE
    /\ env = e
    /\ srv = [responded |-> FALSE, response |-> <<>>, frames |-> <<>>]
    /\ last = [call |-> "none", t |-> "none", err |-> NoErr, frame |-> NoFrame,
               reads |-> 0, was_closed |-> FALSE, handshaking |-> TRUE,
               needed_data |-> FALSE]
    /\ yielded = <<>>
    /\ sendlog = <<>>
    /\ nsends = 0

----------------------------------------------------------------------------
(* service/mod.rs: IOService.  A pending entry is (handle, query,
   query_time_ns, endpoint), an active IONode is (handle, endpoint, ttl,
   disconnect_time_ns).  An endpoint is its host and what its
   can_auto_disconnect answers.  The state of a pending entry's DNS query is
   kept by the resolver, under the entry's handle.  Times are in ticks of the
   clock. *)

ENDPOINT_CREATION_THROTTLE_NS == 1 * Second

DNS_RESOLVE_TIMEOUT_NS == 5 * Second

\* the last tick of the clock
MaxClock == 7 * Second

\* the ttl given to with_auto_disconnect, in ticks
Ttl == 2

\* the number of bytes the stream of a stand-alone ReadBuffer holds
StreamLen == 6

\* the number of values of a SelectorToken (u32)
TokenValues == 4

saturating_add(a, b) == Min(a + b, U64Max)

NoTtl == [some |-> FALSE, ttl |-> 0]

SomeTtl(ttl) == [some |-> TRUE, ttl |-> ttl]

----------------------------------------------------------------------------
(* service/dns.rs.  kind "Any" is a resolver known only by the DnsResolver
   and DnsQuery traits; "Blocking" and "Async" are the two of the crate. *)

\* BlockingDnsResolver, AsyncDnsResolver::new: the worker thread runs, its
\* request channel is empty and no reply has been sent
NewDnsResolver(kind) == [kind |-> kind, alive |-> TRUE, requests |-> <<>>, ready |-> {}]

\* DnsRequest; live: the Receiver of its response channel still exists
DnsRequest(handle, host) == [handle |-> handle, host |-> host, live |-> TRUE]

Disconnect(req, handle) == IF req.handle = handle THEN [req EXCEPT !.live = FALSE] ELSE req

\* the query of `handle` is dropped, and with it the Receiver of its channel
drop_query(d, handle) ==
    [d EXCEPT !.requests = [i \in DOMAIN d.requests |-> Disconnect(d.requests[i], handle)],
              !.ready = d.ready \ {handle}]

QueryResult(ok, d) == [ok |-> ok, dns |-> d]

\* DnsResolver::new_query; q: what a resolver of kind "Any" answers
new_query(d, handle, host, q) ==
    IF d.kind = "Async"
    THEN IF d.alive
         THEN QueryResult(TRUE, [d EXCEPT !.requests = Append(d.requests, DnsRequest(handle, host))])
         ELSE QueryResult(FALSE, d)
    ELSE IF d.kind = "Blocking" THEN QueryResult(TRUE, d)
    ELSE QueryResult(q = "Ok", d)

\* BlockingDnsQuery::poll: to_socket_addrs().unwrap()
BlockingDnsQueryPoll(host, bad) == IF host \in bad THEN "Panic" ELSE "Ready"

\* AsyncDnsQuery::poll: try_recv on the response channel
AsyncDnsQueryPoll(d, handle) ==
    IF handle \in d.ready THEN "Ready"
    ELSE IF \E i \in DOMAIN d.requests : d.requests[i].handle = handle /\ d.requests[i].live
    THEN "WouldBlock"
    ELSE "Err"

\* DnsQuery::poll of the query of `handle`; dns: what a query of a resolver
\* of kind "Any" answers
DnsQueryPoll(d, handle, host, dns, bad) ==
    IF d.kind = "Async" THEN AsyncDnsQueryPoll(d, handle)
    ELSE IF d.kind = "Blocking" THEN BlockingDnsQueryPoll(host, bad)
    ELSE dns

\* the worker thread panics: its Receiver and every request in it are dropped
WorkerDied(d) == [d EXCEPT !.alive = FALSE, !.requests = <<>>]

\* DnsWorker::poll, and the loop of start_on_thread that panics on Err
DnsWorkerPoll(d, bad) ==
    IF d.requests = <<>> THEN d
    ELSE IF Head(d.requests).host \in bad \/ ~Head(d.requests).live THEN WorkerDied(d)
    ELSE [d EXCEPT !.requests = Tail(d.requests),
                   !.ready = d.ready \cup {Head(d.requests).handle}]

----------------------------------------------------------------------------

\* IOService::new, with_auto_disconnect, with_dns_resolver; next_token and
\* registered are the selector's
NewIOService(auto_disconnect, dns_resolver) ==
    [pending_endpoints |-> <<>>,
     io_nodes |-> {},
     next_endpoint_create_time_ns |-> 0,
     auto_disconnect |-> auto_disconnect,
     dns_resolver |-> dns_resolver,
     registered |-> {},
     next_token |-> 0]

Pending(handle, query_time_ns, endpoint) ==
    [handle |-> handle, query_time_ns |-> query_time_ns, endpoint |-> endpoint]

push_back(s, e) == [s EXCEPT !.pending_endpoints = Append(s.pending_endpoints, e)]

pop_front(s) == [s EXCEPT !.pending_endpoints = Tail(s.pending_endpoints)]

\* IONode::new
NewIONode(handle, endpoint, ttl, now) ==
    [handle |-> handle,
     endpoint |-> endpoint,
     ttl |-> IF ttl.some THEN ttl.ttl ELSE U64Max,
     disconnect_time_ns |-> saturating_add(now, IF ttl.some THEN ttl.ttl ELSE U64Max)]

DropQuery(s, handle) == [s EXCEPT !.dns_resolver = drop_query(s.dns_resolver, handle)]

\* IOService::register after next_token: new_query returned r
Registered(s, handle, endpoint, now, r) ==
    IF ~r.ok THEN [svc |-> s, ok |-> FALSE, handle |-> handle]
    ELSE [svc |-> push_back([s EXCEPT !.dns_resolver = r.dns], Pending(handle, now, endpoint)),
          ok |-> TRUE, handle |-> handle]

\* IOService::register; next_token adds 1 to a u32, which wraps in a build
\* without overflow checks
register(s, endpoint, now, q) ==
    Registered([s EXCEPT !.next_token = (s.next_token + 1) % TokenValues], s.next_token,
               endpoint, now,
               new_query(s.dns_resolver, s.next_token, endpoint.host, q))

RemoveAt(q, i) == SubSeq(q, 1, i - 1) \o SubSeq(q, i + 1, Len(q))

FirstIndex(q, handle) ==
    CHOOSE i \in DOMAIN q : q[i].handle = handle /\ \A j \in 1..(i - 1) : q[j].handle # handle

NodeOf(s, handle) == CHOOSE n \in s.io_nodes : n.handle = handle

NoEndpoint == [some |-> FALSE]

SomeEndpoint(endpoint) == [some |-> TRUE, endpoint |-> endpoint]

\* a deregister that looks for the handle in the active set only
deregister_active(s, handle) ==
    IF \E n \in s.io_nodes : n.handle = handle
    THEN [svc |-> [s EXCEPT !.io_nodes = {n \in s.io_nodes : n.handle # handle}],
          res |-> SomeEndpoint(NodeOf(s, handle).endpoint)]
    ELSE [svc |-> s, res |-> NoEndpoint]

\* IOService::deregister; res: the Option<E> it returns
deregister(s, handle) ==
    IF \E n \in s.io_nodes : n.handle = handle
    THEN [svc |-> [s EXCEPT !.io_nodes = {n \in s.io_nodes : n.handle # handle}],
          res |-> SomeEndpoint(NodeOf(s, handle).endpoint)]
    ELSE IF \E i \in DOMAIN s.pending_endpoints : s.pending_endpoints[i].handle = handle
    THEN [svc |-> DropQuery([s EXCEPT !.pending_endpoints =
                                RemoveAt(s.pending_endpoints,
                                         FirstIndex(s.pending_endpoints, handle))],
                            handle),
          res |-> SomeEndpoint(s.pending_endpoints[FirstIndex(s.pending_endpoints, handle)]
                                  .endpoint)]
    ELSE [svc |-> s, res |-> NoEndpoint]

\* IOService::resolve_dns: the query's poll answers dns
resolve_dns(e, now, dns) ==
    IF now > e.query_time_ns + DNS_RESOLVE_TIMEOUT_NS THEN [t |-> "Err", kind |-> "TimedOut"]
    ELSE IF dns = "Ready" THEN [t |-> "Addr", kind |-> "none"]
    ELSE IF dns = "WouldBlock" THEN [t |-> "None", kind |-> "none"]
    ELSE IF dns = "Panic" THEN [t |-> "Panic", kind |-> "none"]
    ELSE [t |-> "Err", kind |-> "Other"]

\* one entry of the history of create_target calls
CreateCall(e, now, res) ==
    << [op |-> "create_target", handle |-> e.handle, time |-> now, res |-> res] >>

\* a poll that leaves next_endpoint_create_time_ns alone
NoThrottle(s, now) == s

\* poll, line 249
Throttle(s, now) ==
    [s EXCEPT !.next_endpoint_create_time_ns = now + ENDPOINT_CREATION_THROTTLE_NS]

Admitted(s, log) == [svc |-> s, ok |-> TRUE, kind |-> "none", log |-> log]

\* a `?` that leaves poll early: the popped endpoint is dropped
AdmitFailed(s, kind, log) == [svc |-> s, ok |-> FALSE, kind |-> kind, log |-> log]

\* poll, lines 236-242: create_target returned None, new_query returned r
AfterNewQuery(s, e, now, r) ==
    IF ~r.ok THEN AdmitFailed(s, "Other", CreateCall(e, now, "None"))
    ELSE Admitted(Throttle(push_back([s EXCEPT !.dns_resolver = r.dns],
                                     Pending(e.handle, now, e.endpoint)),
                           now),
                  CreateCall(e, now, "None"))

\* poll, lines 229-243: s has e popped; create_target answers in.ct
AfterCreate(s, e, now, in) ==
    IF in.ct = "Err" THEN AdmitFailed(s, "Other", CreateCall(e, now, "Err"))
    ELSE IF in.ct = "None"
    THEN AfterNewQuery(s, e, now, new_query(s.dns_resolver, e.handle, e.endpoint.host, in.q))
    ELSE IF in.reg = "Err" THEN AdmitFailed(s, "Other", CreateCall(e, now, "Stream"))
    ELSE Admitted(Throttle([s EXCEPT !.io_nodes =
                                {n \in s.io_nodes : n.handle # e.handle}
                                    \cup {NewIONode(e.handle, e.endpoint,
                                                    s.auto_disconnect, now)},
                                     !.registered = s.registered \cup {e.handle}],
                           now),
                  CreateCall(e, now, "Stream"))

\* poll, lines 228-247: resolve_dns returned r; the query is dropped unless
\* the entry is queued again as it is
AfterResolve(s, e, now, in, r) ==
    IF r.t = "Panic" THEN AdmitFailed(s, "Panic", <<>>)
    ELSE IF r.t = "Err" THEN AdmitFailed(DropQuery(s, e.handle), r.kind, <<>>)
    ELSE IF r.t = "None" THEN Admitted(Throttle(push_back(s, e), now), <<>>)
    ELSE AfterCreate(DropQuery(s, e.handle), e, now, in)

\* the pending entry at the front
Front(s) == Head(s.pending_endpoints)

\* poll, lines 224-251: pending endpoints, one at a time and throttled
Admit(s, now, in) ==
    IF s.pending_endpoints = <<>> \/ ~(now > s.next_endpoint_create_time_ns)
    THEN Admitted(s, <<>>)
    ELSE AfterResolve(pop_front(s), Front(s), now, in,
                      resolve_dns(Front(s), now,
                                  DnsQueryPoll(s.dns_resolver, Front(s).handle,
                                               Front(s).endpoint.host, in.dns, in.bad)))

\* what the two `retain` passes have done so far: the service, whether the
\* thread panicked, the handles whose Endpoint::poll was called, the handles
\* taken out of io_nodes and the handles whose deadline was extended
Swept(s, panic, polled, removed, extended) ==
    [svc |-> s, panic |-> panic, polled |-> polled, removed |-> removed,
     extended |-> extended]

Unregistered(s, n) == [s EXCEPT !.registered = s.registered \ {n.handle}]

\* lines 267-270 and 293-296: new_query(..).unwrap() returned q
Requeued(r, n, now, q) ==
    IF ~q.ok THEN [r EXCEPT !.panic = TRUE, !.svc = Unregistered(r.svc, n)]
    ELSE [r EXCEPT !.svc = push_back([Unregistered(r.svc, n) EXCEPT
                                         !.io_nodes = r.svc.io_nodes \ {n},
                                         !.dns_resolver = q.dns],
                                     Pending(n.handle, now, n.endpoint)),
                   !.removed = Append(r.removed, n.handle)]

\* lines 264-274 and 290-300: the node is unregistered and leaves the active
\* set, its endpoint is queued again, or the thread panics when can_recreate
\* refuses
Recreate(r, n, now, in) ==
    IF ~in.recreate THEN [r EXCEPT !.panic = TRUE, !.svc = Unregistered(r.svc, n)]
    ELSE Requeued(r, n, now, new_query(r.svc.dns_resolver, n.handle, n.endpoint.host, in.q))

\* an extension that moves the deadline by two ttl periods
ExtendedTwice(r, n) ==
    [r EXCEPT !.svc = [r.svc EXCEPT !.io_nodes = (r.svc.io_nodes \ {n}) \cup
                          {[n EXCEPT !.disconnect_time_ns =
                               saturating_add(n.disconnect_time_ns,
                                              2 * r.svc.auto_disconnect.ttl)]}],
              !.extended = Append(r.extended, n.handle)]

\* lines 276-279: the deadline of the node moves by one ttl
Extended(r, n) ==
    [r EXCEPT !.svc = [r.svc EXCEPT !.io_nodes = (r.svc.io_nodes \ {n}) \cup
                          {[n EXCEPT !.disconnect_time_ns =
                               saturating_add(n.disconnect_time_ns,
                                              r.svc.auto_disconnect.ttl)]}],
              !.extended = Append(r.extended, n.handle)]

\* poll, lines 259-283, for one node
SweepNode(r, n, now, in) ==
    IF ~(now > n.disconnect_time_ns) THEN r
    ELSE IF n.endpoint.auto THEN Recreate(r, n, now, in)
    ELSE Extended(r, n)

Polled(r, n) == [r EXCEPT !.polled = Append(r.polled, n.handle)]

\* poll, lines 287-303, for one node
PollNode(r, n, now, in) ==
    IF n.handle \in in.fail THEN Recreate(Polled(r, n), n, now, in) ELSE Polled(r, n)

\* one `retain` pass over io_nodes, in the map's order
RECURSIVE Retain(_, _, _, _, _)
RetainNext(r, order, now, in, pass) ==
    IF r.panic THEN r ELSE Retain(r, order, now, in, pass)

Retain(r, order, now, in, pass) ==
    IF order = <<>> THEN r
    ELSE IF ~\E n \in r.svc.io_nodes : n.handle = Head(order)
    THEN Retain(r, Tail(order), now, in, pass)
    ELSE IF pass = "ttl"
    THEN RetainNext(SweepNode(r, NodeOf(r.svc, Head(order)), now, in), Tail(order), now, in, pass)
    ELSE RetainNext(PollNode(r, NodeOf(r.svc, Head(order)), now, in), Tail(order), now, in, pass)

PollResult(r, res, kind, log) ==
    [svc |-> r.svc, res |-> res, kind |-> kind, log |-> log, polled |-> r.polled,
     removed |-> r.removed, extended |-> r.extended]

\* poll, lines 286-305: the endpoint pass returned r
AfterPoll(r, log) ==
    IF r.panic THEN PollResult(r, "Panic", "none", log) ELSE PollResult(r, "Ok", "none", log)

\* poll, lines 286-305: the ttl pass returned r
AfterSweep(r, now, in, log) ==
    IF r.panic THEN PollResult(r, "Panic", "none", log)
    ELSE AfterPoll(Retain(r, in.order, now, in, "poll"), log)

NotSwept(s) == Swept(s, FALSE, <<>>, <<>>, <<>>)

\* poll, lines 253-284: the admission returned a
AfterAdmit(a, now, in) ==
    IF a.kind = "Panic" THEN PollResult(NotSwept(a.svc), "Panic", "none", a.log)
    ELSE IF ~a.ok THEN PollResult(NotSwept(a.svc), "Err", a.kind, a.log)
    ELSE IF in.sel = "Err" THEN PollResult(NotSwept(a.svc), "Err", "Other", a.log)
    ELSE IF a.svc.auto_disconnect.some
    THEN AfterSweep(Retain(NotSwept(a.svc), in.order, now, in, "ttl"), now, in, a.log)
    ELSE AfterSweep(NotSwept(a.svc), now, in, a.log)

\* IOService::poll
poll(s, now, in) == AfterAdmit(Admit(s, now, in), now, in)

\* a dispatch that answers true for any handle
dispatch_any(s, handle, act) == [svc |-> s, res |-> "true", invoked |-> <<>>]

\* IOService::dispatch; act: what the action returns.  invoked: the handles
\* of the nodes the action was called on
dispatch(s, handle, act) ==
    IF \E n \in s.io_nodes : n.handle = handle
    THEN [svc |-> s, res |-> IF act = "Ok" THEN "true" ELSE "Err",
          invoked |-> << NodeOf(s, handle) >>]
    ELSE [svc |-> s, res |-> "false", invoked |-> <<>>]

----------------------------------------------------------------------------
(* The user of the service, its endpoints, resolver, selector and clock *)

\* the hosts of the endpoints the user registers, in the order registered
Hosts == <<"a.example", "b.example", "c.example", "d.example", "e.example">>

\* an endpoint: its connection_info and what its can_auto_disconnect answers
Endpoint(host, auto) == [host |-> host, auto |-> auto]

PendingHandles(s) == {s.pending_endpoints[i].handle : i \in DOMAIN s.pending_endpoints}

ActiveHandles(s) == {n.handle : n \in s.io_nodes}

\* the orders in which a HashMap may hand out the nodes of the handles in S
Orders(S) == {o \in [1..Cardinality(S) -> S] : \A i, j \in 1..Cardinality(S) : o[i] = o[j] => i = j}

\* What the collaborators of the service may answer: the DNS query's poll,
\* create_target, new_query, the selector's register and poll, and whether
\* an endpoint's poll may fail, can_recreate refuse, can_auto_disconnect veto.
SvcEnv(dns, create, query, reg, sel, fail, refuse, veto) ==
    [dns |-> dns, create |-> create, query |-> query, reg |-> reg, sel |-> sel,
     fail |-> fail, refuse |-> refuse, veto |-> veto]

\* How the service is built and used: the endpoints the user registers, the
\* ttl of with_auto_disconnect, the kind of resolver, the hosts whose lookup
\* fails and what the action of a dispatch may return.
SvcSetup(e, n, ttl, resolver, bad, acts) ==
    e @@ [n |-> n, ttl |-> ttl, resolver |-> resolver, bad |-> bad, acts |-> acts]

PollInputs ==
    [dns : env.dns, ct : env.create, q : env.query, reg : env.reg, sel : env.sel,
     fail : IF env.fail THEN SUBSET ActiveHandles(svc) ELSE {{}},
     recreate : IF env.refuse THEN BOOLEAN ELSE {TRUE},
     order : Orders(PendingHandles(svc) \cup ActiveHandles(svc)),
     bad : {env.bad}]

SvcCall(call, t, kind) == [call |-> call, t |-> t, kind |-> kind]

\* register returned r
RegisterReturns(endpoint, r) ==
    /\ svc' = r.svc
    /\ eps' = IF r.ok THEN eps \cup {[handle |-> r.handle, endpoint |-> endpoint]} ELSE eps
    /\ last' = [handle |-> r.handle] @@ SvcCall("register", IF r.ok THEN "Ok" ELSE "Err", "none")

\* the user registers an endpoint
Register ==
    /\ ~panicked
    /\ svc.next_token < env.n
    /\ \E q \in env.query, auto \in (IF env.veto THEN BOOLEAN ELSE {TRUE}) :
          RegisterReturns(Endpoint(Hosts[svc.next_token + 1], auto),
                          register(svc, Endpoint(Hosts[svc.next_token + 1], auto), clock, q))
    /\ UNCHANGED <<ws, net, out, batch, panicked, env, srv, yielded, sendlog, nsends,
                   clock, svclog, libvars>>

\* deregister(h) returned r
DeregisterReturns(h, r) ==
    /\ svc' = r.svc
    /\ eps' = {e \in eps : e.handle # h}
    /\ last' = [handle |-> h, res |-> r.res, before |-> svc]
                  @@ SvcCall("deregister", "Ok", "none")

\* the user deregisters a handle
Deregister ==
    /\ ~panicked
    /\ \E h \in 0..(env.n - 1) : DeregisterReturns(h, deregister(svc, h))
    /\ UNCHANGED <<ws, net, out, batch, panicked, env, srv, yielded, sendlog, nsends,
                   clock, svclog, libvars>>

\* poll returned r; failed: the handles whose Endpoint::poll returned Err
PollReturns(r, failed) ==
    /\ svc' = r.svc
    /\ svclog' = svclog \o r.log
    /\ panicked' = (r.res = "Panic")
    /\ last' = [polled |-> r.polled, removed |-> r.removed, extended |-> r.extended,
                failed |-> {h \in failed : \E i \in DOMAIN r.polled : r.polled[i] = h},
                created |-> r.log, before |-> svc, time |-> clock]
                  @@ SvcCall("poll", r.res, r.kind)

\* the user calls poll
Poll ==
    /\ ~panicked
    /\ \E in \in PollInputs : PollReturns(poll(svc, clock, in), in.fail)
    /\ UNCHANGED <<ws, net, out, batch, env, srv, yielded, sendlog, nsends, clock, eps,
                   libvars>>

\* dispatch(h, action) returned r
DispatchReturns(h, act, r) ==
    /\ svc' = r.svc
    /\ last' = [handle |-> h, act |-> act, invoked |-> r.invoked, before |-> svc]
                  @@ SvcCall("dispatch", r.res, "none")

\* the user dispatches an action to a handle
Dispatch ==
    /\ ~panicked
    /\ \E h \in 0..(env.n - 1), act \in env.acts : DispatchReturns(h, act, dispatch(svc, h, act))
    /\ UNCHANGED <<ws, net, out, batch, panicked, env, srv, yielded, sendlog, nsends,
                   clock, eps, svclog, libvars>>

\* the worker thread of the AsyncDnsResolver runs its loop once
DnsWorkerStep ==
    /\ svc.dns_resolver.kind = "Async"
    /\ svc.dns_resolver.alive
    /\ svc.dns_resolver.requests # <<>>
    /\ svc' = [svc EXCEPT !.dns_resolver = DnsWorkerPoll(svc.dns_resolver, env.bad)]
    /\ UNCHANGED <<ws, net, out, batch, panicked, env, srv, last, yielded, sendlog, nsends,
                   clock, eps, svclog, libvars>>

\* the monotonic time source moves on
Tick ==
    /\ ~panicked
    /\ clock < MaxClock
    /\ clock' = clock + 1
    /\ UNCHANGED <<ws, net, out, batch, panicked, env, srv, last, yielded, sendlog, nsends,
                   svc, eps, svclog, libvars>>

\* the time source moves on under a user that polls at least once per tick
TickPolled ==
    /\ ~panicked
    /\ clock < MaxClock
    /\ last.call = "poll"
    /\ clock' = clock + 1
    /\ last' = SvcCall("tick", "Ok", "none")
    /\ UNCHANGED <<ws, net, out, batch, panicked, env, srv, yielded, sendlog, nsends,
                   svc, eps, svclog, libvars>>

NextSvc == Register \/ Deregister \/ Poll \/ Tick

\* no ReadBuffer beside the websocket and the service
\* the bytes the stream of the stand-alone ReadBuffer delivers, in order
StreamBytes == [i \in 1..StreamLen |-> i]

\* no call of the encoder or the decoder on its own
NoCodecCall == [call |-> "none"]

InitLibIdle ==
    /\ rbuf = [buf |-> NewReadBuffer, stream |-> StreamBytes]
    /\ codec = NoCodecCall
    /\ tape = NewTape
    /\ bstream = NewBuffered
    /\ tls = NewTls
    /\ ktls = NewKtls

\* the state after IOService::new, in environment e
InitSvc(e) ==
    /\ ws = NewWebsocket
    /\ net = <<>>
    /\ out = <<>>
    /\ batch = FALSE
    /\ panicked = FALSE
    /\ env = e
    /\ srv = [responded |-> FALSE, response |-> <<>>, frames |-> <<>>]
    /\ last = SvcCall("none", "none", "none")
    /\ yielded = <<>>
    /\ sendlog = <<>>
    /\ nsends = 0
    /\ svc = NewIOService(e.ttl, NewDnsResolver(e.resolver))
    /\ clock = 1
    /\ eps = {}
    /\ svclog = <<>>
    /\ InitLibIdle

\* no service beside the websocket
InitSvcIdle ==
    /\ svc = NewIOService(NoTtl, NewDnsResolver("Blocking"))
    /\ clock = 1
    /\ eps = {}
    /\ svclog = <<>>
    /\ InitLibIdle

----------------------------------------------------------------------------
(* Environments *)

TextF == DataFrame("Text", FALSE, <<102>>, 7)
ContF == DataFrame("Continuation", FALSE, <<98, 97>>, 7)
ContT == DataFrame("Continuation", TRUE, <<>>, 7)
Text16 == DataFrame("Text", TRUE, <<120>>, 16)
Binary64 == DataFrame("Binary", TRUE, <<121>>, 64)

UserText == Msg(TRUE, TEXT_FRAME, SomeBody(<<104>>))
UserPing == Msg(TRUE, PING, NoBody)

EnvData ==
    Env({TextF, ContF, ContT, Text16, Binary64}, {Response101}, {"WouldBlock"}, {}, {})

InitData == InitWs(EnvData) /\ InitSvcIdle

\* data frames in every length encoding, reads split anywhere, no hard fault
SpecData == InitData /\ [][NextReceive]_vars

CloseBye == ControlFrame("Close", <<3, 232, 98>>)
PingA == ControlFrame("Ping", <<65>>)
PongB == ControlFrame("Pong", <<66>>)
BadRsv == ServerFrame("Text", TRUE, <<>>, 7, 4, 0)

EnvClose == Env({CloseBye, TextF}, {Response101}, {}, {"Err"}, {UserText})

InitClose == InitWs(EnvClose) /\ InitSvcIdle

\* the server closes the connection; stream writes may fail
SpecClose == InitClose /\ [][NextWs]_vars

EnvFault == Env({TextF, BadRsv}, {Response101, Response200}, {"Eof", "Err"}, {"Err"}, {UserText})

InitFault == InitWs(EnvFault) /\ InitSvcIdle

\* malformed frames, a refused upgrade, hard read and write errors
SpecFault == InitFault /\ [][NextWs]_vars

EnvBlock == Env({TextF}, {Response101}, {"WouldBlock"}, {"WouldBlock"}, {UserText})

InitBlock == InitWs(EnvBlock) /\ InitSvcIdle

\* a non-blocking stream that answers WouldBlock to reads and to writes
SpecBlock == InitBlock /\ [][NextWs]_vars

EnvPing == Env({PingA, TextF}, {Response101}, {}, {"Err"}, {UserText})

InitPing == InitWs(EnvPing) /\ InitSvcIdle

\* Pings among data frames, a user who also sends; stream writes may fail
SpecPing == InitPing /\ [][NextWs]_vars

EnvControl == Env({PingA, PongB, TextF}, {Response101}, {}, {"Err"}, {})

InitControl == InitWs(EnvControl) /\ InitSvcIdle

\* Pings and Pongs among data frames, a user who only receives
SpecControl == InitControl /\ [][NextReceive]_vars

EnvHandshake == Env({TextF}, {Response101}, {}, {"Err"}, {UserText, UserPing})

InitHandshake == InitWs(EnvHandshake) /\ InitSvcIdle

\* messages sent while the upgrade is pending; stream writes may fail
SpecHandshake == InitHandshake /\ [][NextWs]_vars

EnvSvc == SvcSetup(SvcEnv({"Ready", "WouldBlock"}, {"Stream", "None", "Err"}, {"Ok"}, {"Ok"}, {"Ok"},
                          TRUE, FALSE, FALSE),
                   MaxEndpoints, NoTtl, "Any", {}, {"Ok"})

InitService == InitSvc(EnvSvc)

\* a service whose endpoints may refuse or fail to connect and may disconnect
SpecSvc == InitService /\ [][NextSvc]_vars

----------------------------------------------------------------------------
(* The wire, seen from outside the websocket *)

IsPrefix(s, t) == Len(s) <= Len(t) /\ SubSeq(t, 1, Len(s)) = s

RECURSIVE Flatten(_)
Flatten(frames) ==
    IF frames = <<>> THEN <<>> ELSE WireBytes(Head(frames)) \o Flatten(Tail(frames))

\* how many of the leading frames lie whole within the first n bytes
RECURSIVE WholeFrames(_, _)
WholeFrames(frames, n) ==
    IF frames = <<>> \/ Len(WireBytes(Head(frames))) > n THEN 0
    ELSE 1 + WholeFrames(Tail(frames), n - Len(WireBytes(Head(frames))))

\* frame bytes the websocket has taken off the stream
FrameBytesRead ==
    IF handshake_complete(ws) THEN Len(Flatten(srv.frames)) - Len(net) ELSE 0

\* frame bytes the decoder has consumed
FrameBytesDecoded ==
    IF handshake_complete(ws)
    THEN FrameBytesRead - available(ws.state.decoder.buffer) ELSE 0

\* the server's frames that are whole in what was read, and in what was decoded
FramesRead == SubSeq(srv.frames, 1, WholeFrames(srv.frames, FrameBytesRead))
FramesDecoded == SubSeq(srv.frames, 1, WholeFrames(srv.frames, FrameBytesDecoded))

\* a client frame on the wire (RFC 6455, masked with the key 0)
ClientWire(e) ==
    << (IF e.fin THEN 128 ELSE 0) + e.op >>
    \o (IF Len(e.body.bytes) <= 125 THEN << 128 + Len(e.body.bytes) >>
        ELSE << 128 + 126 >> \o to_be_bytes(Len(e.body.bytes), 2))
    \o <<0, 0, 0, 0>> \o e.body.bytes

RECURSIVE ClientBytes(_)
ClientBytes(entries) ==
    IF entries = <<>> THEN <<>> ELSE ClientWire(Head(entries)) \o ClientBytes(Tail(entries))

IsQueued(e) == e.src = "queue"
IsDrained(e) == e.src = "drain"
IsWritten(e) == e.src # "queue" /\ e.res = "Ok"
IsAttempt(e) == e.src # "queue"
IsPongEntry(e) == e.src = "pong"
IsPingFrame(f) == f.kind = "Ping"
IsPongFrame(f) == f.kind = "Pong"
IsCloseFrame(f) == f.kind = "Close"

\* what the stream must hold: the upgrade request, then every frame whose
\* send succeeded, in the order of the sends
Written == Request \o ClientBytes(SelectSeq(sendlog, IsWritten))

\* the stream holds the request, or what has been sent of it so far, then
\* the frames sent, and nothing else unless the last send failed part-way
StreamMatchesSends ==
    IF SelectSeq(sendlog, IsAttempt) = <<>> THEN IsPrefix(out, Request)
    ELSE /\ IsPrefix(Written, out)
         /\ (\A i \in DOMAIN sendlog : sendlog[i].res = "Ok") => out = Written

----------------------------------------------------------------------------
(* Claims *)

\* C6: for well-formed unmasked data frames in 7-, 16- and 64-bit length
\* encodings, however the bytes are split across reads, the frames yielded
\* are exactly the frames decoded from the wire, in wire order, with the
\* same opcode, fin bit and payload; and when a call returns None no whole
\* frame is left in the buffer.
C6_WireOrder ==
    /\ yielded = [i \in DOMAIN FramesDecoded |-> WireFrame(FramesDecoded[i])]
    /\ (last.call \in {"next", "receive_next"} /\ last.t = "None")
          => Len(FramesRead) = Len(yielded)

\* a 16-bit and a 64-bit frame, each split over several reads, were yielded
C6_Witness ==
    /\ Len(yielded) = 2
    /\ yielded[1] = WireFrame(Text16)
    /\ yielded[2] = WireFrame(Binary64)

\* C8: a read_batch (also the one inside Websocket::receive_next) reads the
\* stream at most once and not at all while the decoder has not asked for
\* more data; next() and receive_next() on a batch never read.
C8_OneRead ==
    /\ last.reads <= 1
    /\ last.call = "next" => last.reads = 0
    /\ (last.call \in {"read_batch", "receive_next"}
        /\ ~last.handshaking /\ ~last.needed_data) => last.reads = 0

\* read_batch returned without reading although bytes were waiting
C8_Witness ==
    /\ last.call = "read_batch"
    /\ ~last.handshaking
    /\ ~last.needed_data
    /\ last.reads = 0
    /\ net # <<>>
    /\ ws.state.decoder.needs_more_data = FALSE

\* C1: once a Close frame with a payload of two bytes or more has been
\* decoded, the call that decoded it returned ReceivedCloseFrame(status,
\* reason), status being the first two payload bytes big-endian and reason
\* the rest, the websocket is closed, and every later receive_next and send_*
\* call returns Closed.
C1_CloseFrame ==
    \A i \in DOMAIN FramesDecoded :
        IsCloseFrame(FramesDecoded[i]) =>
            /\ ~panicked
            /\ ws.closed
            /\ IF last.was_closed
               THEN last.call \in {"next", "receive_next", "send"}
                        => (last.t = "Err" /\ last.err = [e |-> "Closed"])
               ELSE /\ last.t = "Err"
                    /\ last.err =
                         [e |-> "ReceivedCloseFrame",
                          status |-> 256 * FramesDecoded[i].payload[1]
                                        + FramesDecoded[i].payload[2],
                          body |-> SubSeq(FramesDecoded[i].payload, 3,
                                          Len(FramesDecoded[i].payload))]

\* C2: a call that fails with a decoding or stream error closes the
\* websocket, and every call made on a closed websocket (read_batch,
\* receive_next, next on a batch, send_*) returns Closed.
C2_StickyClosed ==
    /\ (last.t = "Err" => ws.closed)
    /\ (last.was_closed => (last.t = "Err" /\ last.err = [e |-> "Closed"]))

\* C3: no call returns an error of kind WouldBlock, whether the stream
\* answered WouldBlock to a read or to a write.
C3_NoWouldBlock ==
    ~(last.t = "Err" /\ last.err = IOError("WouldBlock"))

\* C4 as stated: every Ping decoded has exactly one Pong with its payload
\* written to the stream, ahead of any later user frame, and is not yielded.
C4_PongWritten ==
    /\ Len(SelectSeq(sendlog, IsPongEntry)) = Len(SelectSeq(FramesDecoded, IsPingFrame))
    /\ \A i \in DOMAIN sendlog : IsPongEntry(sendlog[i]) => sendlog[i].res = "Ok"
    /\ StreamMatchesSends
    /\ \A i \in DOMAIN yielded : ~IsPingFrame(yielded[i])

\* C4, amended: every Ping decoded is answered by exactly one attempt to
\* write a Pong with its payload, made in the same call and so ahead of any
\* later user frame, and the Ping is not yielded; the Pong is on the stream
\* whole when the write succeeds, and when the write fails the call fails,
\* the websocket is closed (or the thread has panicked) and no later frame
\* is written.
C4_PongAttempted ==
    /\ Len(SelectSeq(sendlog, IsPongEntry)) = Len(SelectSeq(FramesDecoded, IsPingFrame))
    /\ \A i \in DOMAIN SelectSeq(sendlog, IsPongEntry) :
          /\ SelectSeq(sendlog, IsPongEntry)[i].op = PONG
          /\ SelectSeq(sendlog, IsPongEntry)[i].fin
          /\ SelectSeq(sendlog, IsPongEntry)[i].body
                = SomeBody(SelectSeq(FramesDecoded, IsPingFrame)[i].payload)
    /\ \A i \in DOMAIN sendlog :
          (IsPongEntry(sendlog[i]) /\ sendlog[i].res # "Ok")
              => (i = Len(sendlog) /\ (ws.closed \/ panicked))
    /\ StreamMatchesSends
    /\ \A i \in DOMAIN yielded : ~IsPingFrame(yielded[i])

\* a Ping was answered and the user's later frame followed the Pong
C4_Witness ==
    /\ Len(sendlog) = 2
    /\ sendlog[1] = SendEntry("pong", TRUE, PONG, SomeBody(<<65>>), "Ok")
    /\ sendlog[2] = SendEntry("user", TRUE, TEXT_FRAME, SomeBody(<<104>>), "Ok")
    /\ out = Request \o ClientWire(sendlog[1]) \o ClientWire(sendlog[2])

\* C5: every well-formed Pong decoded is yielded to the user as a Pong with
\* its payload, and decoding it does not close the websocket.
C5_PongYielded ==
    /\ SelectSeq(yielded, IsPongFrame)
          = [i \in DOMAIN SelectSeq(FramesDecoded, IsPongFrame) |->
                WireFrame(SelectSeq(FramesDecoded, IsPongFrame)[i])]
    /\ ~(last.t = "Err" /\ last.err.e = "Protocol")

\* C7: when next() on a batch returns None, no whole frame is left in the
\* buffer: every frame read so far has been decoded.
C7_NoneMeansDrained ==
    (last.call = "next" /\ last.t = "None") => Len(FramesRead) = Len(FramesDecoded)

IsCreateTarget(c) == c.op = "create_target"

\* C10: two consecutive create_target calls of the service are more than
\* one second apart.
C10_Throttle ==
    \A i \in 1..(Len(SelectSeq(svclog, IsCreateTarget)) - 1) :
        SelectSeq(svclog, IsCreateTarget)[i + 1].time
            > SelectSeq(svclog, IsCreateTarget)[i].time + ENDPOINT_CREATION_THROTTLE_NS

----------------------------------------------------------------------------
(* The service: claims *)

\* endpoints that resolve and connect at the first attempt, a resolver that
\* may refuse a query at registration, and a user who polls at least once per
\* tick of the clock
EnvThree ==
    SvcSetup(SvcEnv({"Ready"}, {"Stream"}, {"Ok", "Err"}, {"Ok"}, {"Ok"}, FALSE, FALSE, FALSE),
             MaxEndpoints + 1, NoTtl, "Any", {}, {"Ok"})

InitThree == InitSvc(EnvThree)

\* the user registers its endpoints before the clock has moved
RegisterFirst == clock = 1 /\ Register

NextThree == RegisterFirst \/ Poll \/ TickPolled

\* the user polls again once it has registered or the clock has moved
PollDue == last.call # "poll" /\ Poll

\* the user keeps polling and the clock keeps moving
FairThree == WF_vars(PollDue) /\ WF_vars(TickPolled)

SpecThree == InitThree /\ [][NextThree]_vars /\ FairThree

\* every endpoint the user may register is pending, all registered at the
\* first tick
RegisteredAtOnce ==
    /\ clock = 1
    /\ Len(svc.pending_endpoints) = env.n
    /\ \A i \in DOMAIN svc.pending_endpoints : svc.pending_endpoints[i].query_time_ns = 1

AllActive == ActiveHandles(svc) = 0..(env.n - 1)

CreateSpaced ==
    \A i \in 1..(Len(SelectSeq(svclog, IsCreateTarget)) - 1) :
        SelectSeq(svclog, IsCreateTarget)[i + 1].time
            >= SelectSeq(svclog, IsCreateTarget)[i].time + ENDPOINT_CREATION_THROTTLE_NS

\* C11: when all the endpoints (three) are registered at the same time, DNS
\* resolves and create_target returns a stream, repeated polls eventually
\* make all of them active, and their create_target calls are at least one
\* second apart.
C11_AllConnect == [](CreateSpaced) /\ (RegisteredAtOnce ~> AllActive)

\* three endpoints registered at once are all active, after three attempts
C11_Witness ==
    /\ AllActive
    /\ env.n = MaxEndpoints + 1
    /\ Len(svclog) = env.n
    /\ \A i \in DOMAIN svclog : svclog[i].res = "Stream" /\ svclog[i].handle = i - 1
    /\ \A e \in eps : e.handle \in 0..(env.n - 1)
    /\ svclog[1].time = 1

\* the crate's resolvers; the lookup of the second endpoint's host fails
EnvDns(resolver) ==
    SvcSetup(SvcEnv({"Ready"}, {"Stream", "None"}, {"Ok"}, {"Ok"}, {"Ok"}, FALSE, FALSE, FALSE),
             MaxEndpoints, NoTtl, resolver, {Hosts[2]}, {"Ok"})

InitDnsAsync == InitSvc(EnvDns("Async"))

InitDnsBlocking == InitSvc(EnvDns("Blocking"))

InitDns == InitDnsAsync \/ InitDnsBlocking

NextDns == Register \/ Deregister \/ Poll \/ Tick \/ DnsWorkerStep

\* a service on the blocking or on the asynchronous resolver
SpecDns == InitDns /\ [][NextDns]_vars

\* the last call was a poll that took the front of the pending queue
Admitting ==
    /\ last.call = "poll"
    /\ last.before.pending_endpoints # <<>>
    /\ last.time > last.before.next_endpoint_create_time_ns

\* what the poll of the front entry's query answered, or would have answered
FrontAnswer ==
    DnsQueryPoll(last.before.dns_resolver, Front(last.before).handle,
                 Front(last.before).endpoint.host, "Ready", env.bad)

\* how long ago the front entry's query was created
FrontAge == last.time - Front(last.before).query_time_ns

\* C12: a poll that admits a pending endpoint returns TimedOut only if the
\* query answered WouldBlock and is 5 s old or older; a WouldBlock before
\* that puts the entry back in the queue as it was; a query whose address is
\* ready leads to create_target, however old it is.
C12_DnsTimeout ==
    Admitting =>
        /\ (last.t = "Err" /\ last.kind = "TimedOut")
              => (FrontAnswer = "WouldBlock" /\ FrontAge >= DNS_RESOLVE_TIMEOUT_NS)
        /\ (FrontAnswer = "WouldBlock" /\ FrontAge < DNS_RESOLVE_TIMEOUT_NS)
              => (/\ last.t = "Ok"
                  /\ svc.pending_endpoints # <<>>
                  /\ svc.pending_endpoints[Len(svc.pending_endpoints)] = Front(last.before))
        /\ FrontAnswer = "Ready"
              => (/\ Len(last.created) = 1
                  /\ last.created[1].handle = Front(last.before).handle)

\* a service with auto disconnect: endpoints that let the ttl expire or veto
\* it, and that may fail to connect
EnvTtl ==
    SvcSetup(SvcEnv({"Ready"}, {"Stream", "Err"}, {"Ok"}, {"Ok"}, {"Ok"}, FALSE, FALSE, TRUE),
             MaxEndpoints, SomeTtl(Ttl), "Any", {}, {"Ok"})

InitTtl == InitSvc(EnvTtl)

NextTtl == Register \/ Poll \/ Tick

SpecTtl == InitTtl /\ [][NextTtl]_vars

\* node n was active before the last poll and its deadline had passed
Due(n) == n \in last.before.io_nodes /\ last.time > n.disconnect_time_ns

\* node n has left the active set and the selector, and its endpoint is
\* pending under the same handle with a query made at the time of the poll
TornDown(n) ==
    /\ n.handle \notin ActiveHandles(svc)
    /\ n.handle \notin svc.registered
    /\ \E i \in DOMAIN svc.pending_endpoints :
          svc.pending_endpoints[i] = Pending(n.handle, last.time, n.endpoint)

\* C13: with auto disconnect, a poll made after the deadline of an active
\* node whose can_auto_disconnect answers true takes the node out of the
\* active set, unregisters its stream and queues its endpoint again with a
\* fresh query and the same handle.
C13_TtlSweep ==
    last.call = "poll" =>
        \A n \in last.before.io_nodes : (Due(n) /\ n.endpoint.auto) => TornDown(n)

\* a service with auto disconnect that is polled at every tick and whose
\* endpoints always connect
EnvVeto ==
    SvcSetup(SvcEnv({"Ready"}, {"Stream"}, {"Ok"}, {"Ok"}, {"Ok"}, FALSE, FALSE, TRUE),
             MaxEndpoints, SomeTtl(Ttl), "Any", {}, {"Ok"})

InitVeto == InitSvc(EnvVeto)

NextVeto == Register \/ Poll \/ TickPolled

SpecVeto == InitVeto /\ [][NextVeto]_vars

\* the time of the last create_target call that returned a stream for handle h
ConnectTime(h) ==
    svclog[CHOOSE i \in DOMAIN svclog :
              /\ svclog[i].handle = h /\ svclog[i].res = "Stream"
              /\ \A j \in DOMAIN svclog :
                    (svclog[j].handle = h /\ svclog[j].res = "Stream") => j <= i].time

\* the number of ttl periods added to the deadline of node m since it connected
Extensions(m) == (m.disconnect_time_ns - (ConnectTime(m.handle) + m.ttl)) \div m.ttl

\* the last poll ran its TTL sweep
SweepRan == last.call = "poll" /\ last.t = "Ok"

\* the deadline of node n after a poll that found it at n.disconnect_time_ns
DeadlineAfter(n) ==
    IF SweepRan /\ last.time > n.disconnect_time_ns
    THEN saturating_add(n.disconnect_time_ns, svc.auto_disconnect.ttl)
    ELSE n.disconnect_time_ns

\* C14: an active node whose can_auto_disconnect answers false is still
\* active after every poll; a poll whose sweep finds its deadline passed moves
\* the deadline by exactly one ttl, saturating, and any other poll leaves it,
\* so the deadline is always the connect time plus a whole number of ttl
\* periods; when every tick of the clock has a poll, the deadline after a poll
\* is never behind the time of the poll (with a ttl of 100 ms, nine
\* extensions after 1 s).
C14_VetoExtends ==
    /\ last.call = "poll" =>
          \A n \in last.before.io_nodes :
              ~n.endpoint.auto =>
                  /\ [n EXCEPT !.disconnect_time_ns = DeadlineAfter(n)] \in svc.io_nodes
                  /\ n.handle \in svc.registered
                  /\ \A i \in DOMAIN last.removed : last.removed[i] # n.handle
                  /\ (\E i \in DOMAIN last.extended : last.extended[i] = n.handle)
                        <=> (SweepRan /\ last.time > n.disconnect_time_ns)
    /\ \A m \in svc.io_nodes :
          ~m.endpoint.auto =>
              /\ last.call = "poll" => m.disconnect_time_ns >= last.time
              /\ Extensions(m) >= 0
              /\ m.disconnect_time_ns = ConnectTime(m.handle) + (Extensions(m) + 1) * m.ttl

\* a vetoing node connected at time 1 that polls have extended MaxClock \div Ttl - 1
\* times by the last but one tick
C14_Witness ==
    /\ last.call = "poll"
    /\ last.time = MaxClock - Second
    /\ \E m \in svc.io_nodes :
          /\ ~m.endpoint.auto
          /\ ConnectTime(m.handle) = 1
          /\ last.extended = <<m.handle>>
          /\ Extensions(m) = (MaxClock \div Ttl) - 1
          /\ m.disconnect_time_ns >= clock

\* a service whose active endpoints may fail their poll and accept to be
\* recreated, on either resolver of the crate
EnvFail(resolver) ==
    SvcSetup(SvcEnv({"Ready"}, {"Stream"}, {"Ok"}, {"Ok"}, {"Ok"}, TRUE, FALSE, FALSE),
             MaxEndpoints, NoTtl, resolver, {}, {"Ok"})

InitFailAsync == InitSvc(EnvFail("Async"))

InitFailBlocking == InitSvc(EnvFail("Blocking"))

InitFail == InitFailAsync \/ InitFailBlocking

SpecFail == InitFail /\ [][NextDns]_vars

\* the handles in sequence q
HandlesIn(q) == {q[i] : i \in DOMAIN q}

\* node n, whose poll failed in the last poll, has left the active set and
\* the selector and waits at the back of the queue with a query of that time
RequeuedAfterFailure(n) ==
    /\ n.handle \notin ActiveHandles(svc)
    /\ n.handle \notin svc.registered
    /\ \E i \in DOMAIN svc.pending_endpoints :
          /\ svc.pending_endpoints[i] = Pending(n.handle, last.time, n.endpoint)
          /\ \A j \in DOMAIN svc.pending_endpoints :
                j > i => svc.pending_endpoints[j].handle \in last.failed

\* C15: a service poll in which Endpoint::poll of some endpoints fails (and
\* can_recreate accepts) returns Ok, has unregistered each failed endpoint and
\* queued it again under its handle with a fresh query, and has polled every
\* other active endpoint exactly once.
C15_PollFailure ==
    (last.call = "poll" /\ last.failed # {}) =>
        /\ last.t = "Ok"
        /\ \A n \in last.before.io_nodes : n.handle \in last.failed => RequeuedAfterFailure(n)
        /\ \A h \in ActiveHandles(svc) :
              Cardinality({i \in DOMAIN last.polled : last.polled[i] = h}) = 1
        /\ ActiveHandles(svc) = HandlesIn(last.polled) \ last.failed
        /\ Len(last.polled) = Cardinality(HandlesIn(last.polled))

\* the user registers and polls and never deregisters: no query is dropped
\* before its answer
NextLookup == Register \/ Poll \/ Tick \/ DnsWorkerStep

\* endpoints of which the second has a host whose lookup fails
SpecLookup == InitDns /\ [][NextLookup]_vars

\* C16: a lookup that fails for the host of one endpoint neither panics the
\* thread that polls the service nor ends the worker thread of the resolver,
\* so the other endpoints can still be resolved and polled.
C16_LookupFailure ==
    /\ ~panicked
    /\ svc.dns_resolver.alive
    /\ last.call = "poll" => last.t # "Panic"

\* a service whose user dispatches actions that may fail
EnvDispatch ==
    SvcSetup(SvcEnv({"Ready"}, {"Stream"}, {"Ok"}, {"Ok"}, {"Ok"}, FALSE, FALSE, FALSE),
             MaxEndpoints, NoTtl, "Any", {}, {"Ok", "Err"})

InitDispatch == InitSvc(EnvDispatch)

NextDispatch == Register \/ Deregister \/ Poll \/ Tick \/ Dispatch

SpecDispatch == InitDispatch /\ [][NextDispatch]_vars

\* the handle of the last dispatch was active when it was called
WasActive == last.handle \in ActiveHandles(last.before)

EnvCancel ==
    SvcSetup(SvcEnv({"Ready"}, {"Stream", "None"}, {"Ok"}, {"Ok"}, {"Ok"}, TRUE, FALSE, FALSE),
             MaxEndpoints, NoTtl, "Any", {}, {"Ok"})

InitCancel == InitSvc(EnvCancel)

\* the clock moves during the first two throttle periods
TickEarly == clock <= 2 * ENDPOINT_CREATION_THROTTLE_NS /\ Tick

NextCancel == Register \/ Deregister \/ Poll \/ Dispatch \/ TickEarly

SpecCancel == InitCancel /\ [][NextCancel]_vars

\* the handles the service holds
Held(s) == PendingHandles(s) \cup ActiveHandles(s)

\* the handles that register returned and deregister was called with since
Deregistered == {h \in 0..(svc.next_token - 1) : \A e \in eps : e.handle # h}

\* the endpoint the service s holds under handle h
EndpointOf(s, h) ==
    IF h \in ActiveHandles(s) THEN NodeOf(s, h).endpoint
    ELSE s.pending_endpoints[FirstIndex(s.pending_endpoints, h)].endpoint

\* C18: deregister(h) returns the endpoint held under h, pending or active,
\* and None when there is none; from then on h is neither pending nor active,
\* no poll creates, polls or re-queues it, dispatch(h) returns false and
\* deregister(h) returns None.
C18_Deregister ==
    /\ last.call = "deregister" =>
          /\ last.res = (IF last.handle \in Held(last.before)
                         THEN SomeEndpoint(EndpointOf(last.before, last.handle))
                         ELSE NoEndpoint)
          /\ last.handle \notin Held(svc)
          /\ \A h \in Held(last.before) \ {last.handle} :
                h \in Held(svc) /\ EndpointOf(svc, h) = EndpointOf(last.before, h)
    /\ Deregistered \cap Held(svc) = {}
    /\ last.call = "poll" =>
          /\ Deregistered \cap (HandlesIn(last.polled) \cup HandlesIn(last.removed)) = {}
          /\ \A i \in DOMAIN last.created : last.created[i].handle \notin Deregistered
    /\ (last.call = "dispatch" /\ last.handle \in Deregistered) =>
          (last.t = "false" /\ last.invoked = <<>>)
    /\ (last.call = "deregister" /\ last.handle \in Deregistered
          /\ last.handle \notin Held(last.before)) => last.res = NoEndpoint

\* an endpoint that had been connected is deregistered a second time after a
\* pending endpoint was deregistered
C18_Witness ==
    /\ last.call = "deregister"
    /\ last.res = NoEndpoint
    /\ last.handle \in Deregistered
    /\ \E i \in DOMAIN svclog : svclog[i].handle = last.handle /\ svclog[i].res = "Stream"
    /\ Cardinality(Deregistered) = MaxEndpoints
    /\ \E h \in Deregistered : \A i \in DOMAIN svclog : svclog[i].handle # h

\* a long-lived service: endpoints fail their poll and reconnect, and the user
\* registers new endpoints as it deregisters old ones
EnvHandles ==
    SvcSetup(SvcEnv({"Ready"}, {"Stream"}, {"Ok"}, {"Ok"}, {"Ok"}, TRUE, FALSE, FALSE),
             TokenValues, NoTtl, "Any", {}, {"Ok"})

InitHandles == InitSvc(EnvHandles)

\* the hosts of the endpoints the user has registered and not deregistered
HostsInUse == {e.endpoint.host : e \in eps}

\* the user registers an endpoint it does not hold yet, while it holds fewer
\* than MaxEndpoints
RegisterNext ==
    /\ ~panicked
    /\ Cardinality(eps) < MaxEndpoints
    /\ Len(svc.pending_endpoints) + Cardinality(svc.io_nodes) < MaxEndpoints
    /\ \E i \in DOMAIN Hosts :
          /\ Hosts[i] \notin HostsInUse
          /\ \A j \in 1..(i - 1) : Hosts[j] \in HostsInUse
          /\ RegisterReturns(Endpoint(Hosts[i], TRUE),
                             register(svc, Endpoint(Hosts[i], TRUE), clock, "Ok"))
    /\ UNCHANGED <<ws, net, out, batch, panicked, env, srv, yielded, sendlog, nsends,
                   clock, svclog, libvars>>

\* next_token in a build with overflow checks: the addition panics
RegisterOverflow ==
    /\ ~panicked
    /\ Cardinality(eps) < MaxEndpoints
    /\ Len(svc.pending_endpoints) + Cardinality(svc.io_nodes) < MaxEndpoints
    /\ svc.next_token = TokenValues - 1
    /\ panicked' = TRUE
    /\ last' = SvcCall("register", "Panic", "none")
    /\ UNCHANGED <<ws, net, out, batch, env, srv, yielded, sendlog, nsends, svcvars, libvars>>

NextHandles == RegisterNext \/ RegisterOverflow \/ Deregister \/ Poll \/ TickEarly

SpecHandles == InitHandles /\ [][NextHandles]_vars

\* sequence q of records with a handle has no handle twice
DistinctHandles(q) == \A i, j \in DOMAIN q : q[i].handle = q[j].handle => i = j

\* C19: the handles of the registered endpoints are pairwise distinct; every
\* registered endpoint is held under its handle either in the pending queue
\* or in the active set and not in both; register never panics.
C19_UniqueHandles ==
    /\ ~(last.call = "register" /\ last.t = "Panic")
    /\ \A e1, e2 \in eps : e1.handle = e2.handle => e1 = e2
    /\ DistinctHandles(svc.pending_endpoints)
    /\ \A n1, n2 \in svc.io_nodes : n1.handle = n2.handle => n1 = n2
    /\ PendingHandles(svc) \cap ActiveHandles(svc) = {}
    /\ \A e \in eps : e.handle \in Held(svc) /\ EndpointOf(svc, e.handle) = e.endpoint
    /\ \A h \in Held(svc) : \E e \in eps : e.handle = h

----------------------------------------------------------------------------
(* A ReadBuffer<ChunkSize, InitialCapacity> used on its own *)

\* what stream.read may answer for a slice of len bytes: some of the bytes
\* left, end of stream, WouldBlock or an error
StreamReads(len) ==
    {[k |-> "Data", n |-> n] : n \in 0..Min(len, Len(rbuf.stream))}
        \cup {[k |-> "WouldBlock", n |-> 0]}
        \cup {[k |-> "Err", n |-> 0, kind |-> e] : e \in {"ConnectionReset", "UnexpectedEof"}}

\* a call on the buffer returned r
BufferReturns(call, len, r, taken, ans) ==
    /\ rbuf' = [buf |-> r.buf, stream |-> SubSeq(rbuf.stream, taken + 1, Len(rbuf.stream))]
    /\ last' = [call |-> call, len |-> len, res |-> [x \in DOMAIN r \ {"buf"} |-> r[x]],
                ans |-> ans, before |-> rbuf.buf, t |-> "Ok", kind |-> "none"]
    /\ UNCHANGED <<codec, tape, bstream, tls, ktls>>

\* no stream call was made
NoAnswer == [k |-> "none", n |-> 0]

\* read_from_with_mode in mode `mode`, the stream answering r
ReadWith(call, mode, r) ==
    BufferReturns(call, 0,
                  read_from_with_mode(rbuf.buf, ChunkSize, mode, r, SubSeq(rbuf.stream, 1, r.n)),
                  IF r.k = "Data" THEN r.n ELSE 0, r)

ReadFrom ==
    /\ \E r \in StreamReads(ReadSliceLen(rbuf.buf, ChunkSize, "Chunk")) :
          ReadWith("read_from", "Chunk", r)
    /\ UNCHANGED <<ws, net, out, batch, panicked, env, srv, yielded, sendlog, nsends, svcvars>>

ReadAllFrom ==
    /\ \E r \in StreamReads(ReadSliceLen(rbuf.buf, ChunkSize, "Available")) :
          ReadWith("read_all_from", "Available", r)
    /\ UNCHANGED <<ws, net, out, batch, panicked, env, srv, yielded, sendlog, nsends, svcvars>>

ConsumeNext ==
    /\ \E len \in 0..(ChunkSize + 1) :
          BufferReturns("consume_next", len, consume_next(rbuf.buf, len), 0, NoAnswer)
    /\ UNCHANGED <<ws, net, out, batch, panicked, env, srv, yielded, sendlog, nsends, svcvars>>

ConsumeNextByte ==
    /\ BufferReturns("consume_next_byte", 1, consume_next_byte(rbuf.buf), 0, NoAnswer)
    /\ UNCHANGED <<ws, net, out, batch, panicked, env, srv, yielded, sendlog, nsends, svcvars>>

InitBuffer == InitWs(EnvData) /\ InitSvcIdle

NextBuffer == ReadFrom \/ ReadAllFrom \/ ConsumeNext \/ ConsumeNextByte

SpecBuffer == InitBuffer /\ [][NextBuffer]_vars

\* the number of bytes consumed from buffer b when `left` bytes are still to
\* be delivered by the stream
Consumed(b, left) == (StreamLen - Len(left)) - available(b)

\* C20: 0 <= head <= tail <= capacity after any sequence of read_from,
\* read_all_from, consume_next and consume_next_byte; consume_next(n) returns
\* None and changes nothing when fewer than n bytes are available, otherwise
\* it returns the next n unread bytes of the stream and adds n to head.
C20_ReadBuffer ==
    /\ 0 <= rbuf.buf.head
    /\ rbuf.buf.head <= rbuf.buf.tail
    /\ rbuf.buf.tail <= Len(rbuf.buf.inner)
    /\ last.call = "consume_next" =>
          IF available(last.before) < last.len
          THEN ~last.res.some /\ rbuf.buf = last.before
          ELSE /\ last.res.some
               /\ last.res.bytes = [i \in 1..last.len |->
                                       Consumed(last.before, rbuf.stream) + i]
               /\ rbuf.buf = [last.before EXCEPT !.head = last.before.head + last.len]

\* consume_next hands out the last bytes of the stream, of a buffer that has
\* grown and compacted
C20_Witness ==
    /\ last.call = "consume_next"
    /\ last.res.some
    /\ last.len = ChunkSize + 1
    /\ last.res.bytes[last.len] = StreamLen
    /\ Len(rbuf.buf.inner) = 2 * InitialCapacity
    /\ last.before.head = 0
    /\ rbuf.buf.tail < StreamLen

\* C21: read_from returns Ok and appends nothing when the stream answers
\* WouldBlock, fails with UnexpectedEof when the stream reads 0 bytes and
\* fails with the error of the stream otherwise; in the three cases the
\* unread bytes are those of before the call.
C21_ReadFromErrors ==
    last.call = "read_from" =>
        /\ last.ans.k = "WouldBlock" => (last.res.ok /\ view(rbuf.buf) = view(last.before))
        /\ (last.ans.k = "Data" /\ last.ans.n = 0) =>
              /\ ~last.res.ok
              /\ last.res.kind = "UnexpectedEof"
              /\ view(rbuf.buf) = view(last.before)
        /\ last.ans.k = "Err" =>
              /\ ~last.res.ok
              /\ last.res.kind = last.ans.kind
              /\ view(rbuf.buf) = view(last.before)

\* the stream has read 0 bytes into a buffer that held unread bytes behind
\* consumed ones
C21_Witness ==
    /\ last.call = "read_from"
    /\ last.ans.k = "Data"
    /\ last.ans.n = 0
    /\ last.before.head > 0
    /\ available(last.before) > 0
    /\ rbuf.buf.head = 0
    /\ ~last.res.ok

----------------------------------------------------------------------------
(* The frame encoder and the frame decoder on their own *)

\* the payload lengths at both sides of every length encoding; a payload of
\* 10_000_000 bytes is encoded as one of 65536 bytes is
PayloadLengths == {0, 1, 125, 126, 127, 65535, 65536}

OpCodes == {CONTINUATION_FRAME, TEXT_FRAME, BINARY_FRAME, CONNECTION_CLOSE, PING, PONG}

FrameKinds == {"Continuation", "Text", "Binary", "Close", "Ping", "Pong"}

PayloadOf(len) == [i \in 1..len |-> i % 256]

\* the shortest length encoding of a payload of len bytes
MinEnc(len) == IF len <= 125 THEN 7 ELSE IF len <= 65535 THEN 16 ELSE 64

\* a Decoder whose reads have stored `wire` in its buffer
DecoderHolding(wire) ==
    [NewDecoder EXCEPT !.buffer = [inner |-> wire, head |-> 0, tail |-> Len(wire)],
                       !.needs_more_data = FALSE]

\* the bytes encoder::send writes on a stream that takes every write
Encoded(fin, op_code, body) == encoder_send(<<>>, 0, NoWriteFault, fin, op_code, body).out

\* what decode_next returns to its caller
Returned(x) == [f \in DOMAIN x \ {"dec"} |-> x[f]]

Decoded(wire) == Returned(decode_next(DecoderHolding(wire)))

\* the fin bit of a decoded frame; Ping and Close carry none and are sent final
FinOf(frame) == IF "fin" \in DOMAIN frame THEN frame.fin ELSE TRUE

\* the decoded frame written by the encoder again
EncodedAgain(x) ==
    IF x.t = "Frame"
    THEN Encoded(FinOf(x.frame), OpOf(x.frame.kind), SomeBody(x.frame.payload))
    ELSE <<>>

\* encoder::send of a frame, and decode_next on the bytes it wrote
CodecSend(fin, op_code, body) ==
    [call |-> "send", fin |-> fin, op_code |-> op_code, body |-> body,
     wire |-> Encoded(fin, op_code, body),
     back |-> Decoded(Encoded(fin, op_code, body))]

\* decode_next on the bytes of server frame f, and encoder::send of the result
CodecDecode(f) ==
    [call |-> "decode_next", frame |-> f, wire |-> WireBytes(f),
     res |-> Decoded(WireBytes(f)),
     again |-> EncodedAgain(Decoded(WireBytes(f)))]

EncodeFrame ==
    /\ \E fin \in BOOLEAN, op_code \in OpCodes, len \in PayloadLengths, some \in BOOLEAN :
          /\ some \/ len = 0
          /\ codec' = CodecSend(fin, op_code,
                                IF some THEN SomeBody(PayloadOf(len)) ELSE NoBody)
    /\ UNCHANGED <<ws, net, out, batch, panicked, env, srv, last, yielded, sendlog, nsends,
                   svcvars, rbuf, tape, bstream, tls, ktls>>

DecodeFrame ==
    /\ \E kind \in FrameKinds, fin \in BOOLEAN, len \in PayloadLengths :
          /\ fin \/ kind \in {"Continuation", "Text", "Binary"}
          /\ codec' = CodecDecode(DataFrame(kind, fin, PayloadOf(len), MinEnc(len)))
    /\ UNCHANGED <<ws, net, out, batch, panicked, env, srv, last, yielded, sendlog, nsends,
                   svcvars, rbuf, tape, bstream, tls, ktls>>

InitCodec == InitWs(EnvData) /\ InitSvcIdle

NextCodec == EncodeFrame \/ DecodeFrame

SpecCodec == InitCodec /\ [][NextCodec]_vars

\* C22: for every opcode and every payload length of PayloadLengths, a frame
\* written by the encoder is accepted by the decoder and decodes to the same
\* opcode, fin bit and payload, and a decoded frame that is encoded again
\* gives back the bytes it was decoded from.
C22_RoundTrip ==
    /\ codec.call = "send" =>
          /\ codec.back.t = "Frame"
          /\ OpOf(codec.back.frame.kind) = codec.op_code
          /\ FinOf(codec.back.frame) = codec.fin
          /\ codec.back.frame.payload = codec.body.bytes
    /\ codec.call = "decode_next" =>
          /\ codec.res.t = "Frame"
          /\ codec.again = codec.wire

\* the bytes before the masking key in a frame with a payload of n bytes
LengthEnd(n) == IF n <= 125 THEN 2 ELSE IF n <= 65535 THEN 4 ELSE 10

\* w holds n as the length of a frame: in 7 bits, in 2 or in 8 big-endian bytes
LengthWritten(w, n) ==
    /\ n <= 125 => w[2] = 128 + n
    /\ (n > 125 /\ n <= 65535) =>
          /\ w[2] = 128 + 126
          /\ w[3] \in 0..255 /\ w[4] \in 0..255
          /\ w[3] * 256 + w[4] = n
    /\ n > 65535 =>
          /\ w[2] = 128 + 127
          /\ \A i \in 3..7 : w[i] = 0
          /\ \A i \in 8..10 : w[i] \in 0..255
          /\ (w[8] * 256 + w[9]) * 256 + w[10] = n

\* C30: every frame the encoder writes is, in this order: one byte with the
\* FIN bit and the opcode; the length with the MASK bit set, in 7 bits up to
\* 125, as 126 and 2 big-endian bytes up to 65535, as 127 and 8 big-endian
\* bytes above; four zero bytes of masking key; the payload unchanged.  A
\* missing body is written as length 0.
C30_FrameLayout ==
    codec.call = "send" =>
        /\ codec.wire[1] = (IF codec.fin THEN 128 ELSE 0) + codec.op_code
        /\ LengthWritten(codec.wire, Len(codec.body.bytes))
        /\ SubSeq(codec.wire, LengthEnd(Len(codec.body.bytes)) + 1,
                  LengthEnd(Len(codec.body.bytes)) + 4) = <<0, 0, 0, 0>>
        /\ SubSeq(codec.wire, LengthEnd(Len(codec.body.bytes)) + 5, Len(codec.wire))
              = codec.body.bytes
        /\ Len(codec.wire) = LengthEnd(Len(codec.body.bytes)) + 4 + Len(codec.body.bytes)
        /\ ~codec.body.some => codec.wire[2] = 128 /\ Len(codec.wire) = 6

\* a binary frame of 65536 bytes was written with the 8-byte length
C30_Witness ==
    /\ codec.call = "send"
    /\ codec.op_code = BINARY_FRAME
    /\ Len(codec.body.bytes) = 65536
    /\ codec.wire[2] = 255
    /\ Len(codec.wire) = 65550

----------------------------------------------------------------------------
(* A session on a RecordedStream, replayed from its files *)

\* the reads of a recorded session, at most
MaxReads == 4
\* the length of the buffer the reader passes to every read
BufLen == 2

\* what the inner stream may answer a read into a buffer of len bytes
InnerReads(len) ==
    {[k |-> "Data", n |-> n] : n \in 0..len}
        \cup {[k |-> "WouldBlock", n |-> 0], [k |-> "Err", n |-> 0, kind |-> "ConnectionReset"]}

\* the n bytes the peer sends after the first `sent`
PeerBytes(sent, n) == [i \in 1..n |-> (sent + i) % 256]

Recorded(x) == [tape EXCEPT !.rec = x.stream, !.calls = Append(@, x.res)]

Replayed(x) == [tape EXCEPT !.replay.stream = x.stream, !.replies = Append(@, x.res)]

Opened(x) == [tape EXCEPT !.opened = IF x.ok THEN "yes" ELSE "failed", !.replay = x]

\* the reader reads from the RecordedStream
RecordedRead ==
    /\ tape.opened = "no"
    /\ Len(tape.calls) < MaxReads
    /\ \E r \in InnerReads(BufLen) :
          tape' = Recorded(RecordedStreamRead(tape.rec, r,
                               PeerBytes(Len(tape.rec.recorder.inbound), r.n)))
    /\ UNCHANGED <<ws, net, out, batch, panicked, env, srv, last, yielded, sendlog, nsends,
                   svcvars, rbuf, codec, bstream, tls, ktls>>

\* the session is over and its files are opened for replay
OpenReplay ==
    /\ tape.opened = "no"
    /\ tape' = Opened(from_file(tape.rec.recorder))
    /\ UNCHANGED <<ws, net, out, batch, panicked, env, srv, last, yielded, sendlog, nsends,
                   svcvars, rbuf, codec, bstream, tls, ktls>>

\* the reader reads from the ReplayStream, up to one read more than recorded
ReplayRead ==
    /\ tape.opened = "yes"
    /\ Len(tape.replies) <= Len(tape.calls)
    /\ tape' = Replayed(ReplayStreamRead(tape.replay.stream, BufLen))
    /\ UNCHANGED <<ws, net, out, batch, panicked, env, srv, last, yielded, sendlog, nsends,
                   svcvars, rbuf, codec, bstream, tls, ktls>>

InitReplay == InitWs(EnvData) /\ InitSvcIdle

NextReplay == RecordedRead \/ OpenReplay \/ ReplayRead

SpecReplay == InitReplay /\ [][NextReplay]_vars

\* the position of the last read of the session that returned Ok, 0 if none
LastRecorded(calls) ==
    IF \E i \in DOMAIN calls : calls[i].ok
    THEN MaxOf({i \in DOMAIN calls : calls[i].ok})
    ELSE 0

\* C23 as stated: replay gives the results of the recorded session call by
\* call: a successful read returns the same bytes, a read that returned
\* WouldBlock returns WouldBlock at the same position, and every read after
\* the reads of the session fails with UnexpectedEof.
C23_ReplayEqual ==
    \A i \in DOMAIN tape.replies :
        /\ (i <= Len(tape.calls) /\ tape.calls[i].ok) => tape.replies[i] = tape.calls[i]
        /\ (i <= Len(tape.calls) /\ tape.calls[i] = ReadErr("WouldBlock"))
              => tape.replies[i] = ReadErr("WouldBlock")
        /\ i > Len(tape.calls) => tape.replies[i] = ReadErr("UnexpectedEof")

\* C23: up to the last read of the session that returned Ok, replay returns
\* the same bytes for every read that returned one byte or more and
\* WouldBlock for every read that returned no byte or failed; every read
\* after it fails with UnexpectedEof, the reads of the session that returned
\* WouldBlock after it included; the files cannot be opened for replay when
\* no read of the session returned Ok.
C23_Replay ==
    /\ tape.opened = "failed" => LastRecorded(tape.calls) = 0
    /\ tape.opened = "yes" => LastRecorded(tape.calls) > 0
    /\ \A i \in DOMAIN tape.replies :
          /\ (i <= LastRecorded(tape.calls) /\ tape.calls[i].ok /\ tape.calls[i].bytes # <<>>)
                => tape.replies[i] = tape.calls[i]
          /\ (i <= LastRecorded(tape.calls)
              /\ (~tape.calls[i].ok \/ tape.calls[i].bytes = <<>>))
                => tape.replies[i] = ReadErr("WouldBlock")
          /\ i > LastRecorded(tape.calls) => tape.replies[i] = ReadErr("UnexpectedEof")

\* a session of two bytes, WouldBlock, one byte, WouldBlock was replayed whole
C23_Witness ==
    /\ Len(tape.calls) = 4
    /\ tape.calls[1] = ReadOk(<<1, 2>>)
    /\ tape.calls[2] = ReadErr("WouldBlock")
    /\ tape.calls[3] = ReadOk(<<3>>)
    /\ tape.calls[4] = ReadErr("WouldBlock")
    /\ Len(tape.replies) = 5
    /\ tape.replies[3] = ReadOk(<<3>>)
    /\ tape.replies[4] = ReadErr("UnexpectedEof")

----------------------------------------------------------------------------

\* C24: a query of the AsyncDnsResolver that is dropped before the worker has
\* replied to it (its endpoint was deregistered) does not end the worker:
\* the worker thread keeps running, and the query of every endpoint that
\* waits in the queue has its addresses or can still receive them.
C24_WorkerKeepsRunning ==
    svc.dns_resolver.kind = "Async" =>
        /\ svc.dns_resolver.alive
        /\ \A i \in DOMAIN svc.pending_endpoints :
              AsyncDnsQueryPoll(svc.dns_resolver, svc.pending_endpoints[i].handle) # "Err"

----------------------------------------------------------------------------

\* the last frame handed to encoder::send was handed over by send_* and one
\* of its writes failed
SendWriteFailed ==
    /\ last.call = "send"
    /\ sendlog # <<>>
    /\ sendlog[Len(sendlog)].src = "user"
    /\ sendlog[Len(sendlog)].res # "Ok"

\* C25: when a write that makes up an outgoing frame fails (header byte,
\* length bytes, masking key, payload or the flush), send_* returns an error
\* value and the websocket is closed; send_* never panics.
C25_SendFailure ==
    /\ ~(last.call = "send" /\ last.t = "Panic")
    /\ SendWriteFailed => (last.t = "Err" /\ ws.closed /\ ~panicked)

----------------------------------------------------------------------------
(* Frames a server must not send *)

Rsv1Text == ServerFrame("Text", TRUE, <<114>>, 7, 4, 0)
Rsv2Text == ServerFrame("Text", FALSE, <<115>>, 7, 2, 0)
Rsv3Binary == ServerFrame("Binary", TRUE, <<116>>, 7, 1, 0)
MaskedText == ServerFrame("Text", TRUE, <<109>>, 7, 0, 1)
Reserved3F == ServerFrame("Reserved3", TRUE, <<117>>, 7, 0, 0)

EnvProtocol ==
    Env({TextF, Rsv1Text, Rsv2Text, Rsv3Binary, MaskedText, Reserved3F},
        {Response101}, {"WouldBlock"}, {}, {})

InitProtocol == InitWs(EnvProtocol) /\ InitSvcIdle

\* data frames among frames with an RSV bit, the MASK bit or a reserved opcode
SpecProtocol == InitProtocol /\ [][NextReceive]_vars

\* a frame the client must answer with a Protocol error, and the error
Malformed(f) == f.rsv # 0 \/ f.mask = 1 \/ f.kind = "Reserved3"

ProtocolErrorOf(f) ==
    [e |-> "Protocol",
     msg |-> IF f.rsv # 0 THEN "non zero RSV value received"
             ELSE IF f.mask = 1 THEN "masking bit set on the server frame"
             ELSE "unknown op_code"]

\* the position of the first malformed frame the server sent, 0 if none
FirstMalformed ==
    IF \E i \in DOMAIN srv.frames : Malformed(srv.frames[i])
    THEN CHOOSE i \in DOMAIN srv.frames :
            Malformed(srv.frames[i]) /\ \A j \in 1..(i - 1) : ~Malformed(srv.frames[j])
    ELSE 0

\* C26: a server frame with an RSV bit set, with the MASK bit set or with an
\* opcode the client does not know is never yielded to the user; the receive
\* call that finds it whole in the buffer, the frames before it yielded,
\* returns the Protocol error; a call that returns a Protocol error closes
\* the websocket, and no Protocol error is returned for well-formed frames.
C26_ProtocolError ==
    /\ \A i \in DOMAIN yielded :
          /\ i <= Len(srv.frames)
          /\ yielded[i] = WireFrame(srv.frames[i])
          /\ \A j \in 1..i : ~Malformed(srv.frames[j])
    /\ (/\ last.call \in {"next", "receive_next"}
        /\ ~last.was_closed
        /\ ~last.handshaking
        /\ last.t # "Frame"
        /\ FirstMalformed > 0
        /\ Len(yielded) = FirstMalformed - 1
        /\ Len(FramesRead) >= FirstMalformed)
          => /\ last.t = "Err"
             /\ last.err = ProtocolErrorOf(srv.frames[FirstMalformed])
    /\ (last.t = "Err" /\ last.err.e = "Protocol")
          => /\ ws.closed
             /\ FirstMalformed > 0
             /\ Len(yielded) = FirstMalformed - 1
             /\ last.err = ProtocolErrorOf(srv.frames[FirstMalformed])

\* a Text frame was yielded, then the frame with the reserved opcode that
\* followed it was answered with the Protocol error
C26_Witness ==
    /\ srv.frames = <<TextF, Reserved3F>>
    /\ yielded = <<WireFrame(TextF)>>
    /\ last.call = "next"
    /\ last.t = "Err"
    /\ last.err = [e |-> "Protocol", msg |-> "unknown op_code"]
    /\ Len(FramesRead) = 2
    /\ ws.closed

----------------------------------------------------------------------------

\* the endpoint for which the last poll called create_target is not active
\* and is the last of the pending queue, once, under its handle, with a query
\* issued at the time of that poll and not answered yet
QueuedAgain ==
    /\ last.call = "poll"
    /\ last.created # <<>>
    /\ last.created[1].handle \notin ActiveHandles(svc)
    /\ svc.pending_endpoints # <<>>
    /\ svc.pending_endpoints[Len(svc.pending_endpoints)]
          = Pending(last.created[1].handle, last.time, Front(last.before).endpoint)
    /\ Cardinality({i \in DOMAIN svc.pending_endpoints :
                       svc.pending_endpoints[i].handle = last.created[1].handle}) = 1
    /\ svc.dns_resolver.kind = "Async"
          => AsyncDnsQueryPoll(svc.dns_resolver, last.created[1].handle) = "WouldBlock"

\* C27: when create_target returns Ok(None) in a poll, the endpoint is neither
\* active nor dropped after that poll: it is at the back of the pending queue
\* under its handle, with a freshly issued DNS query.
C27_NotReady ==
    [][(svclog' # svclog /\ svclog'[Len(svclog')].res = "None") => QueuedAgain']_vars

----------------------------------------------------------------------------
(* The phases of the handshake *)

\* the phase of websocket w, numbered in the order of the upgrade
PhaseOf(w) ==
    IF w.state.tag = "Connection" THEN 4
    ELSE CASE w.state.handshake.state = "NotStarted" -> 0
           [] w.state.handshake.state = "PendingRequest" -> 1
           [] w.state.handshake.state = "PendingResponse" -> 2
           [] w.state.handshake.state = "Completed" -> 3

\* the bytes of the response the handshake has read end in CRLF CRLF
ResponseTerminated(w) ==
    /\ w.state.tag = "Handshake"
    /\ available(w.state.handshake.inbound_buffer) >= 4
    /\ view_last(w.state.handshake.inbound_buffer, 4) = CRLFCRLF

\* the whole 101 response has been read off the stream
UpgradeReceived ==
    /\ srv.responded
    /\ srv.response = Response101
    /\ PhaseOf(ws) < 4 =>
          IsPrefix(Response101, view(ws.state.handshake.inbound_buffer))

\* a call of next or receive_next on an open websocket found a terminated
\* response whose status is not 101
RefusedUpgradeSeen ==
    /\ last.call \in {"next", "receive_next"}
    /\ ~last.was_closed
    /\ PhaseOf(ws) = 2
    /\ ResponseTerminated(ws)
    /\ ResponseCode(view(ws.state.handshake.inbound_buffer)) # SWITCHING_PROTOCOLS

\* the handshake is over, or no frame was yielded and none is decoded yet
BeforeUpgrade ==
    /\ PhaseOf(ws) >= 3 => UpgradeReceived
    /\ handshake_complete(ws) <=> PhaseOf(ws) = 4
    /\ PhaseOf(ws) < 4 => yielded = <<>>
    /\ RefusedUpgradeSeen => (last.t = "Err" /\ ws.closed)

\* C28: the handshake moves from NotStarted to PendingRequest, PendingResponse,
\* Completed and Connection one phase at a time and never back;
\* handshake_complete() is false and no frame is yielded until a response with
\* status 101 ending in CRLF CRLF has been read; a call that finds a
\* terminated response with another status returns an error and closes the
\* websocket.
C28_HandshakePhases ==
    /\ [][PhaseOf(ws') \in {PhaseOf(ws), PhaseOf(ws) + 1}]_vars
    /\ []BeforeUpgrade

\* the server refused the upgrade with status 200 and the call that read the
\* end of the response closed the websocket
C28_Witness ==
    /\ srv.response = Response200
    /\ RefusedUpgradeSeen
    /\ view(ws.state.handshake.inbound_buffer) = Response200
    /\ ws.closed
    /\ last.t = "Err"
    /\ last.err = IOError("Other")

----------------------------------------------------------------------------

\* C29: whatever number of bytes the stream accepts per write, WouldBlock
\* included, the bytes written up to the end of the PendingRequest phase are
\* the serialized upgrade request, each byte once and in order: bytes_sent of
\* them while the request is being sent, the whole request and nothing else
\* in PendingResponse, and the whole request before any frame afterwards.
C29_RequestWritten ==
    /\ PhaseOf(ws) = 0 => out = <<>>
    /\ PhaseOf(ws) = 1 =>
          /\ ws.state.handshake.bytes_sent <= Len(Request)
          /\ out = SubSeq(Request, 1, ws.state.handshake.bytes_sent)
    /\ PhaseOf(ws) = 2 => out = Request
    /\ PhaseOf(ws) >= 3 => IsPrefix(Request, out)

\* a write of the request was accepted in part: the stream holds its first
\* byte only and the handshake is still in PendingRequest
C29_Witness ==
    /\ PhaseOf(ws) = 1
    /\ ws.state.handshake.bytes_sent = 1
    /\ out = <<Request[1]>>
    /\ last.call \in {"next", "receive_next"}
    /\ last.t = "None"
    /\ ~ws.closed

(* ---------------------------------------------------------------- *)
(* read_from keeps the unread bytes                                  *)
(* ---------------------------------------------------------------- *)

\* the bytes the stream handed over in the call recorded in `last`
JustRead ==
    IF last.ans.k = "Data"
    THEN SubSeq(StreamBytes, StreamLen - Len(rbuf.stream) - last.ans.n + 1,
                StreamLen - Len(rbuf.stream))
    ELSE <<>>

Compacted == last.before.head > 0 /\ available(last.before) > 0

Cleared == last.before.head > 0 /\ available(last.before) = 0

Grown == Len(rbuf.buf.inner) > Len(last.before.inner)

\* C31: after read_from, view() is the view() before the call followed by the
\* bytes just read, whether the call compacted, cleared or grew the buffer,
\* and head is 0.
C31_ReadFromKeepsBytes ==
    last.call = "read_from" =>
        /\ view(rbuf.buf) = view(last.before) \o JustRead
        /\ rbuf.buf.head = 0

\* a read_from that compacted two unread bytes, doubled the capacity and
\* appended two new bytes
C31_Witness ==
    /\ last.call = "read_from"
    /\ Compacted
    /\ Grown
    /\ Len(view(last.before)) >= 2
    /\ Len(JustRead) = 2

\* a read_from on a fully consumed buffer with head > 0
C31_ClearWitness == last.call = "read_from" /\ Cleared /\ Len(JustRead) > 0

(* ---------------------------------------------------------------- *)
(* Payload slices and the decoder's buffer                           *)
(* ---------------------------------------------------------------- *)

EnvSlices == Env({Binary64, TextF, PingA, CloseBye}, {Response101}, {}, {}, {UserText})

InitSlices == InitWs(EnvSlices) /\ InitSvcIdle

\* a frame whose length field makes the buffer grow, a short frame and a
\* Ping and a Close; a user who also sends
SpecSlices == InitSlices /\ [][NextWs]_vars

\* the decoder's buffer, once the websocket is connected
DecoderBuffer(w) ==
    IF w.state.tag = "Connection" THEN w.state.decoder.buffer ELSE NewReadBuffer

\* the slice consume_next_unchecked(len) has just handed out of buffer b
SliceAt(b, len) == SubSeq(b.inner, b.head - len + 1, b.head)

\* the frame just yielded aliases the bytes that end at the buffer's head
YieldedInPlace ==
    (last.call \in {"next", "receive_next"} /\ last.t = "Frame") =>
        /\ DecoderBuffer(ws).head >= Len(last.frame.payload)
        /\ SliceAt(DecoderBuffer(ws), Len(last.frame.payload)) = last.frame.payload

\* the step was a call on the connected websocket that made no stream.read
CallWithoutRead == ws.state.tag = "Connection" /\ ws' # ws /\ last'.reads = 0

\* C32: a yielded payload slice sits in the decoder's buffer, and every call
\* that makes no read from the stream (decoding further frames, iterating the
\* batch, the automatic Pong and Close replies, user sends) leaves the
\* buffer's bytes and its allocation as they were.
C32_SlicesStayValid ==
    /\ []YieldedInPlace
    /\ [][CallWithoutRead => DecoderBuffer(ws').inner = DecoderBuffer(ws).inner]_vars

\* two frames with payload yielded since the last read: the second one was
\* just yielded, and the first one's payload is still where it was decoded
C32_Witness ==
    /\ last.call = "next"
    /\ last.t = "Frame"
    /\ last.reads = 0
    /\ Len(yielded) = 2
    /\ yielded[1].payload # <<>>
    /\ yielded[2].payload # <<>>
    /\ DecoderBuffer(ws).head = Len(yielded[1].payload) + Len(WireBytes(TextF))
    /\ SliceAt([DecoderBuffer(ws) EXCEPT !.head = Len(yielded[1].payload)],
               Len(yielded[1].payload)) = yielded[1].payload

\* a Pong was sent for a Ping decoded behind a frame that was yielded from
\* the same read
C32_PongWitness ==
    /\ last.call = "next"
    /\ last.reads = 0
    /\ Len(yielded) >= 1
    /\ \E i \in 1..Len(sendlog) : sendlog[i].src = "pong"
    /\ DecoderBuffer(ws).head > Len(WireBytes(PingA))

(* ---------------------------------------------------------------- *)
(* BufferedStream                                                    *)
(* ---------------------------------------------------------------- *)

\* the next len bytes the user of a stream layer writes: every byte the
\* layer accepts has its own value, in the order accepted
WriteData(acc, len) == [i \in 1..len |-> Len(acc) + i]

\* what a call on a stream layer returned.  before: the layer and its
\* history when the call was made
StreamCall(call, r, len, before) ==
    [call |-> call, t |-> IF r.ok THEN "Ok" ELSE "Err", kind |-> r.kind,
     n |-> r.n, len |-> len, before |-> before]

\* BufferedStream::write(buf) returned r
BufferedWriteReturns(buf, r) ==
    /\ bstream' = [s |-> r.s,
                   accepted |-> bstream.accepted \o SubSeq(buf, 1, r.n),
                   since |-> bstream.since \o SubSeq(buf, 1, r.n),
                   flushes |-> bstream.flushes]
    /\ last' = StreamCall("write", r, Len(buf), bstream)

BufferedWrite ==
    /\ \E len \in 0..(N + 1) :
          /\ Len(bstream.accepted) + len <= MaxWritten
          /\ BufferedWriteReturns(WriteData(bstream.accepted, len),
                                  BufferedStreamWrite(bstream.s, WriteData(bstream.accepted, len)))
    /\ UNCHANGED <<ws, net, out, batch, panicked, env, srv, yielded, sendlog, nsends, svcvars,
                   rbuf, codec, tape, tls, ktls>>

\* BufferedStream::flush() returned r
BufferedFlushReturns(r) ==
    /\ bstream' = [bstream EXCEPT !.s = r.s, !.since = <<>>, !.flushes = @ + 1]
    /\ last' = StreamCall("flush", r @@ [n |-> 0], 0, bstream)

BufferedFlush ==
    /\ bstream.flushes < MaxFlushes
    /\ \E w \in WriteAllOutcomes(SubSeq(bstream.s.buffer, 1, bstream.s.cursor)),
          f \in {"Ok", "Err"} :
          BufferedFlushReturns(BufferedStreamFlush(bstream.s, w, f))
    /\ UNCHANGED <<ws, net, out, batch, panicked, env, srv, yielded, sendlog, nsends, svcvars,
                   rbuf, codec, tape, tls, ktls>>

InitBuffered == InitWs(EnvData) /\ InitSvcIdle

NextBuffered == BufferedWrite \/ BufferedFlush

\* writes and flushes on a BufferedStream whose underlying stream may fail
\* at any byte
SpecBuffered == InitBuffered /\ [][NextBuffered]_vars

\* the bytes the buffer of s holds
Content(s) == SubSeq(s.buffer, 1, s.cursor)

\* the bytes the underlying stream took during the call recorded in `last`
Handed == SubSeq(bstream.s.inner, Len(last.before.s.inner) + 1, Len(bstream.s.inner))

\* write copies the whole slice and reports its length, or fails with
\* WriteZero when the slice does not fit and leaves the buffer as it was;
\* nothing reaches the underlying stream
WriteAllOrNothing ==
    last.call = "write" =>
        /\ Handed = <<>>
        /\ IF last.len <= N - last.before.s.cursor
           THEN /\ last.t = "Ok"
                /\ last.n = last.len
                /\ Content(bstream.s) =
                       Content(last.before.s) \o WriteData(last.before.accepted, last.len)
           ELSE /\ last.t = "Err"
                /\ last.kind = "WriteZero"
                /\ bstream.s = last.before.s

\* C33 as stated: write is all or nothing, and a successful flush hands the
\* underlying stream exactly the bytes accepted since the last flush and
\* empties the buffer.
C33_WriteAndFlush ==
    /\ WriteAllOrNothing
    /\ (last.call = "flush" /\ last.t = "Ok") =>
           /\ Handed = last.before.since
           /\ bstream.s.cursor = 0

\* C33: write is all or nothing, and a successful flush hands the underlying
\* stream exactly the bytes the buffer holds (those accepted since the buffer
\* was last emptied) and empties the buffer.
C33_WriteAndFlushHeld ==
    /\ WriteAllOrNothing
    /\ (last.call = "flush" /\ last.t = "Ok") =>
           /\ Handed = Content(last.before.s)
           /\ bstream.s.cursor = 0

\* a successful flush of a buffer that holds more than the bytes accepted
\* since the last flush, after a write that was refused
C33_Witness ==
    /\ last.call = "flush"
    /\ last.t = "Ok"
    /\ Len(Handed) > Len(last.before.since)
    /\ Len(last.before.since) > 0
    /\ bstream.s.cursor = 0

\* a write refused with WriteZero
C33_RefusedWitness == last.call = "write" /\ last.t = "Err" /\ last.before.s.cursor > 0

\* C38: the underlying stream receives every accepted byte exactly once, in
\* the order accepted, also after a flush that failed part way.
C38_ExactlyOnce == IsPrefix(bstream.s.inner, bstream.accepted)

(* ---------------------------------------------------------------- *)
(* TlsStream                                                         *)
(* ---------------------------------------------------------------- *)

\* what SslStream::write or ssl_write can answer to a slice of len bytes
SslWrites(len, blocked) ==
    {[ok |-> TRUE, n |-> n, kind |-> "none"] : n \in (IF len = 0 THEN {0} ELSE 1..len)}
        \cup {[ok |-> FALSE, n |-> 0, kind |-> e] : e \in blocked \cup {"Other"}}

\* what SslStream::read or ssl_read can answer
SslReads(blocked) ==
    {[k |-> "Data", n |-> n] : n \in 0..1} \cup {[k |-> e, n |-> 0] : e \in blocked \cup {"Other"}}

\* a call on the TlsStream returned r; hs is what handshake() answered
TlsReturns(call, hs, len, taken, r) ==
    /\ tls' = [t |-> r.tls, accepted |-> tls.accepted \o taken]
    /\ panicked' = r.panic
    /\ last' = StreamCall(call, r, len, tls) @@ [hs |-> hs]

\* the user calls read; the handshake is driven only while it is pending
TlsRead ==
    /\ ~panicked
    /\ \E h \in (IF tls.t.state.tag = "Handshake" /\ tls.t.state.some
                 THEN {"Ok", "WouldBlock", "Failure"} ELSE {"none"}) :
          \E w \in (IF h = "Ok" THEN WriteAllOutcomes(tls.t.state.buffer)
                    ELSE {[taken |-> 0, ok |-> TRUE, kind |-> "none"]}),
             r \in (IF tls.t.state.tag = "Stream" THEN SslReads({"WouldBlock"})
                    ELSE {[k |-> "WouldBlock", n |-> 0]}) :
             TlsReturns("read", h, 0, <<>>, TlsStreamRead(tls.t, h, w, r))
    /\ UNCHANGED <<ws, net, out, batch, env, srv, yielded, sendlog, nsends, svcvars,
                   rbuf, codec, tape, bstream, ktls>>

\* write(buf) returned r
TlsWriteReturns(buf, r) == TlsReturns("write", "none", Len(buf), SubSeq(buf, 1, r.n), r)

\* the user calls write
TlsWrite ==
    /\ ~panicked
    /\ \E len \in 0..2 :
          /\ Len(tls.accepted) + len <= MaxWritten
          /\ \E x \in (IF tls.t.state.tag = "Stream" THEN SslWrites(len, {"WouldBlock"})
                       ELSE {[ok |-> TRUE, n |-> len, kind |-> "none"]}) :
                TlsWriteReturns(WriteData(tls.accepted, len),
                                TlsStreamWrite(tls.t, WriteData(tls.accepted, len), x))
    /\ UNCHANGED <<ws, net, out, batch, env, srv, yielded, sendlog, nsends, svcvars,
                   rbuf, codec, tape, bstream, ktls>>

InitTls == InitWs(EnvData) /\ InitSvcIdle

NextTls == TlsRead \/ TlsWrite

\* reads and writes on a TlsStream whose handshake is pending after wrap;
\* the handshake and the session's writes may fail
SpecTls == InitTls /\ [][NextTls]_vars

\* the handshake was pending when the call recorded in `last` was made
WasPending == last.before.t.state.tag = "Handshake" /\ last.before.t.state.some

\* C34: a write while the handshake is pending reports the full length and
\* sends nothing; a read that completes the handshake leaves the stream
\* Established with the buffered plaintext written to the session; and the
\* session takes the accepted bytes once each, in the order written.
C34_PendingWrites ==
    /\ (last.call = "write" /\ WasPending) =>
           /\ last.t = "Ok"
           /\ last.n = last.len
           /\ tls.t.session = last.before.t.session
    /\ (last.call = "read" /\ WasPending /\ last.hs = "Ok") =>
           /\ tls.t.state.tag = "Stream"
           /\ tls.t.session = last.before.t.state.buffer
    /\ IsPrefix(tls.t.session, tls.accepted)

\* C40: between calls the TlsStream is Established, or in Handshake with its
\* mid-handshake session and pending buffer present.
C40_NoEmptyHandshake == tls.t.state.tag = "Handshake" => tls.t.state.some

\* a write on the emptied Handshake(None) panicked
TlsWritePanicked == panicked /\ last.call = "write" /\ ~last.before.t.state.some

(* ---------------------------------------------------------------- *)
(* KtlsStream                                                        *)
(* ---------------------------------------------------------------- *)

WANT == {"WANT_READ", "WANT_WRITE"}

\* a call on the KtlsStream returned r
KtlsReturns(call, len, taken, r) ==
    /\ ktls' = [k |-> r.k, accepted |-> ktls.accepted \o taken]
    /\ panicked' = r.panic
    /\ last' = StreamCall(call, r, len, ktls)

\* the user calls read; only the arm of the current state asks the
\* socket or the session anything
KtlsRead ==
    /\ ~panicked
    /\ \E c \in (IF ktls.k.state = "Connecting" THEN {"Yes", "No", "Err"} ELSE {"none"}),
          h \in (IF ktls.k.state = "Handshake" THEN {"Ok", "Other"} \cup WANT ELSE {"none"}),
          offload \in (IF ktls.k.state = "Handshake" THEN BOOLEAN ELSE {TRUE}),
          x \in (IF ktls.k.state = "Drain"
                 THEN SslWrites(Len(Remaining(ktls.k, ktls.k.index)), WANT)
                 ELSE {[ok |-> FALSE, n |-> 0, kind |-> "none"]}),
          r \in (IF ktls.k.state = "Ready" THEN SslReads(WANT) ELSE {[k |-> "none", n |-> 0]}) :
          KtlsReturns("read", 0, <<>>, KtlsStreamRead(ktls.k, c, h, offload, x, r))
    /\ UNCHANGED <<ws, net, out, batch, env, srv, yielded, sendlog, nsends, svcvars,
                   rbuf, codec, tape, bstream, tls>>

\* write(buf) returned r
KtlsWriteReturns(buf, r) == KtlsReturns("write", Len(buf), SubSeq(buf, 1, r.n), r)

\* the user calls write
KtlsWrite ==
    /\ ~panicked
    /\ \E len \in 0..2 :
          /\ Len(ktls.accepted) + len <= MaxWritten
          /\ \E x \in (IF ktls.k.state = "Ready" THEN SslWrites(len, WANT)
                       ELSE {[ok |-> TRUE, n |-> len, kind |-> "none"]}) :
                KtlsWriteReturns(WriteData(ktls.accepted, len),
                                 KtlsStreamWrite(ktls.k, WriteData(ktls.accepted, len), x))
    /\ UNCHANGED <<ws, net, out, batch, env, srv, yielded, sendlog, nsends, svcvars,
                   rbuf, codec, tape, bstream, tls>>

InitKtls == InitWs(EnvData) /\ InitSvcIdle

NextKtls == KtlsRead \/ KtlsWrite

\* reads and writes on a KtlsStream from Connecting on; the socket, the
\* handshake and the session's reads and writes may block or fail
SpecKtls == InitKtls /\ [][NextKtls]_vars

\* the position of a State in Connecting, Handshake, Drain, Ready
RankOf(k) ==
    CASE k.state = "Connecting" -> 0
      [] k.state = "Handshake" -> 1
      [] k.state = "Drain" -> 2
      [] k.state = "Ready" -> 3

\* before Ready a read answers WouldBlock or an error, and a write is
\* buffered whole and sends nothing
BeforeReady ==
    (last.call \in {"read", "write"} /\ last.before.k.state # "Ready") =>
        IF last.call = "read" THEN last.t = "Err"
        ELSE /\ last.t = "Ok"
             /\ last.n = last.len
             /\ ktls.k.session = last.before.k.session
             /\ ktls.k.buffer = last.before.k.buffer \o WriteData(last.before.accepted, last.len)

\* in Ready every buffered byte has been written
DrainedWhenReady ==
    ktls.k.state = "Ready" => /\ ktls.k.index = Len(ktls.k.buffer)
                              /\ IsPrefix(ktls.k.buffer, ktls.k.session)

\* C35: the state only moves forward, one step at a time; before Ready reads
\* answer WouldBlock or an error and writes are only buffered; Ready is
\* entered only with every buffered byte written; the session takes the
\* accepted bytes once each, in the order written.
C35_KtlsOrder ==
    /\ [][RankOf(ktls'.k) \in {RankOf(ktls.k), RankOf(ktls.k) + 1}]_vars
    /\ [](BeforeReady /\ DrainedWhenReady /\ IsPrefix(ktls.k.session, ktls.accepted))

\* Ready was reached with bytes buffered before it, drained in more than
\* one ssl_write, and a byte written after Ready followed them
C35_Witness ==
    /\ ktls.k.state = "Ready"
    /\ Len(ktls.k.buffer) >= 2
    /\ Len(ktls.k.session) > Len(ktls.k.buffer)
    /\ last.call = "write"
    /\ last.t = "Ok"

(* ---------------------------------------------------------------- *)
(* Endpoints across a service poll                                   *)
(* ---------------------------------------------------------------- *)

\* the handles that register returned and deregister was not called with
RegisteredHandles == {e.handle : e \in eps}

\* C36: after a poll that returned Ok or Err, every endpoint that was
\* registered and not deregistered is held by the service, pending or active.
C36_PollKeepsEndpoints ==
    (last.call = "poll" /\ last.t \in {"Ok", "Err"}) => RegisteredHandles \subseteq Held(svc)

(* ---------------------------------------------------------------- *)
(* Close frames with a payload shorter than the status code          *)
(* ---------------------------------------------------------------- *)

CloseEmpty == ControlFrame("Close", <<>>)

CloseOne == ControlFrame("Close", <<3>>)

EnvShortClose == Env({CloseEmpty, CloseOne, TextF}, {Response101}, {}, {}, {})

InitShortClose == InitWs(EnvShortClose) /\ InitSvcIdle

\* the server closes with no status code, or with one byte of it
SpecShortClose == InitShortClose /\ [][NextReceive]_vars

ShortClose(f) == f.kind = "Close" /\ Len(f.payload) < 2

\* C37: once a Close frame with a payload of 0 or 1 bytes has been decoded,
\* the call that decoded it returned an error value, the websocket is closed,
\* and nothing panicked.
C37_ShortClose ==
    \A i \in DOMAIN FramesDecoded :
        ShortClose(FramesDecoded[i]) =>
            /\ ~panicked
            /\ ws.closed
            /\ last.call \in {"next", "receive_next"} => last.t = "Err"

(* ---------------------------------------------------------------- *)
(* The upgrade response and the frames that follow it                *)
(* ---------------------------------------------------------------- *)

\* the user calls read_batch() only after the batch of the read_batch before
\* was asked for a frame
ReadBatchAfterNext == last.call # "read_batch" /\ ReadBatch

\* receive_next() starts with a read_batch of its own
ReceiveNextAfterNext == last.call # "read_batch" /\ ReceiveNext

NextPaired ==
    ServerRespond \/ ServerSendFrame \/ ReadBatchAfterNext \/ BatchNext \/ ReceiveNextAfterNext

\* data frames in every length encoding behind the 101 response; every
\* read_batch is followed by a next()
SpecPaired == InitData /\ [][NextPaired]_vars

\* the bytes the handshake has taken off the stream
HandshakeTaken ==
    IF handshake_complete(ws) THEN Len(srv.response)
    ELSE Len(srv.response) + Len(Flatten(srv.frames)) - Len(net)

\* C39: with every read_batch followed by a next(), the handshake takes no
\* byte behind the CRLF CRLF that ends the upgrade response (every frame byte
\* is still in flight until the decoder reads), and the frames yielded are
\* the frames decoded from the wire, whole and in wire order.
C39_NoOverRead ==
    /\ srv.responded => HandshakeTaken <= Len(srv.response)
    /\ ~handshake_complete(ws) => yielded = <<>>
    /\ yielded = [i \in DOMAIN FramesDecoded |-> WireFrame(FramesDecoded[i])]

\* the response was read to its last byte and accepted while two frames were
\* already in flight behind it, and none of their bytes was taken
C39_Witness ==
    /\ ws.state.tag = "Handshake"
    /\ ws.state.handshake.state = "Completed"
    /\ Len(srv.frames) = 2
    /\ net = Flatten(srv.frames)

\* both frames sent behind the response were yielded
C39_DeliveredWitness ==
    /\ Len(yielded) = 2
    /\ yielded = [i \in 1..2 |-> WireFrame(srv.frames[i])]

====
